---- MODULE Spec2Model ----
(***************************************************************************)
(* A model of g10/trustdb.c (GnuPG trust database core): the record store, *)
(* the keyblock reconciler (update_trust_record), the insertion path       *)
(* (insert_trust_record, process_hintlist), and the trust evaluator        *)
(* (verify_key, do_check, check_trust).                                    *)
(*                                                                         *)
(* The trust database is the sequence tdb of records; a record number is   *)
(* an index of it, 0 is the null record number.  A deleted record keeps    *)
(* its number with rectype RECTYPE_FREE.  die_invalid_db (g10_exit) is the *)
(* field died of an operation's outcome.                                   *)
(***************************************************************************)
EXTENDS Integers, Sequences, FiniteSets, TLC

VARIABLES
    tdb,            \* the trust database: Seq of records, recnum = index
    ultikey_table,  \* LIDs of the ultimately trusted keys (static table)
    opt,            \* opt.completes_needed, opt.marginals_needed
    keyring,        \* the public keyring: key -> keyblock (or NoKeyblock)
    exited,         \* TRUE once die_invalid_db has ended the process
    res,            \* what the last public operation returned
    calls,          \* the number of calls made so far
    stack,          \* the call stack of a stepwise walk of verify_key
    wstate          \* "idle", "run", "done" for the stepwise walk

vars == <<tdb, ultikey_table, opt, keyring, exited, res, calls, stack, wstate>>

-----------------------------------------------------------------------------
(* Constants of trustdb.h and tdbio.h as trustdb.c uses them.              *)

TRUST_MASK == 15
TRUST_UNKNOWN == 0
TRUST_EXPIRED == 1
TRUST_UNDEFINED == 2
TRUST_NEVER == 3
TRUST_MARGINAL == 4
TRUST_FULLY == 5
TRUST_ULTIMATE == 6
TRUST_FLAG_REVOKED == 32

\* flag bytes are modelled as the set of the bits that are set
SIGF_CHECKED == "SIGF_CHECKED"
SIGF_VALID == "SIGF_VALID"
SIGF_EXPIRED == "SIGF_EXPIRED"
SIGF_REVOKED == "SIGF_REVOKED"
SIGF_NOPUBKEY == "SIGF_NOPUBKEY"
DIRF_CHECKED == "DIRF_CHECKED"
DIRF_REVOKED == "DIRF_REVOKED"
UIDF_CHECKED == "UIDF_CHECKED"
UIDF_VALID == "UIDF_VALID"

RECTYPE_FREE == "free"
RECTYPE_DIR == "dir"
RECTYPE_KEY == "key"
RECTYPE_UID == "uid"
RECTYPE_PREF == "pref"
RECTYPE_SIG == "sig"
RECTYPE_SDIR == "sdir"
RECTYPE_HLST == "hlst"
RECTYPE_ANY == "any"

\* return codes
RC_OK == "ok"
RC_NOTFOUND == "notfound"
G10ERR_TRUSTDB == "G10ERR_TRUSTDB"
G10ERR_TIME_CONFLICT == "G10ERR_TIME_CONFLICT"
G10ERR_NO_PUBKEY == "G10ERR_NO_PUBKEY"
G10ERR_BAD_SIGN == "G10ERR_BAD_SIGN"
G10ERR_GENERAL == "G10ERR_GENERAL"

\* slots per Sig record, LIDs per Hlst record (tdbio.h), scaled down
SIGS_PER_RECORD == 2
ITEMS_PER_HLST_RECORD == 2

-----------------------------------------------------------------------------
(* Records (the TRUSTREC union).                                           *)

FreeRec == [rectype |-> RECTYPE_FREE]

DirRec(lid, keylist, uidlist, ownertrust, dirflags) ==
    [rectype |-> RECTYPE_DIR, lid |-> lid, keylist |-> keylist,
     uidlist |-> uidlist, ownertrust |-> ownertrust, dirflags |-> dirflags]

KeyRec(lid, next, algo, fprlen, fpr) ==
    [rectype |-> RECTYPE_KEY, lid |-> lid, next |-> next, pubkey_algo |-> algo,
     fingerprint_len |-> fprlen, fingerprint |-> fpr]

UidRec(lid, next, prefrec, siglist, uidflags, namehash) ==
    [rectype |-> RECTYPE_UID, lid |-> lid, next |-> next, prefrec |-> prefrec,
     siglist |-> siglist, uidflags |-> uidflags, namehash |-> namehash]

PrefRec(lid, next, data) ==
    [rectype |-> RECTYPE_PREF, lid |-> lid, next |-> next, data |-> data]

SigSlot(lid, flag) == [lid |-> lid, flag |-> flag]

FreeSlot == SigSlot(0, {})

SigRec(lid, next, slots) ==
    [rectype |-> RECTYPE_SIG, lid |-> lid, next |-> next, sig |-> slots]

SdirRec(lid, keyid, algo, hintlist) ==
    [rectype |-> RECTYPE_SDIR, lid |-> lid, keyid |-> keyid,
     pubkey_algo |-> algo, hintlist |-> hintlist]

HlstRec(next, rnum) ==
    [rectype |-> RECTYPE_HLST, next |-> next, rnum |-> rnum]

-----------------------------------------------------------------------------
(* Record access.                                                          *)

\* tdbio_read_record succeeds: the record exists and has the expected type
ReadOk(db, recno, rectype) ==
    /\ recno \in 1..Len(db)
    /\ \/ rectype = RECTYPE_ANY
       \/ db[recno].rectype = rectype

\* write_record at an existing or at the next new record number
write_record(db, recno, rec) ==
    IF recno \in 1..Len(db) THEN [db EXCEPT ![recno] = rec]
    ELSE Append(db, rec)

delete_record(db, recno) == [db EXCEPT ![recno] = FreeRec]

tdbio_new_recnum(db) == Len(db) + 1

\* qry_lid_table_flag on the table of ultimately trusted keys: found or not
qry_lid_table_flag(tbl, lid) == lid \in tbl

-----------------------------------------------------------------------------
(* The trust evaluator: verify_key, do_check.                              *)

\* x & TRUST_MASK
TrustMask(x) == x % (TRUST_MASK + 1)

\* the outcome of verify_key: a trust level, or the process has exited
VkRet(t) == [died |-> FALSE, trust |-> t]
VkDied == [died |-> TRUE, trust |-> TRUST_UNKNOWN]

\* a change of TooDeep: one level more
TooDeepStrict(depth, max_depth) == depth > max_depth

\* the depth test of verify_key
TooDeep(depth, max_depth) == depth >= max_depth

\* the slot filter of verify_key: deleted, unchecked, invalid, expired and
\* revoked signatures are skipped
SlotCounts(s) ==
    /\ s.lid # 0
    /\ SIGF_CHECKED \in s.flag
    /\ SIGF_VALID \in s.flag
    /\ SIGF_EXPIRED \notin s.flag
    /\ SIGF_REVOKED \notin s.flag

\* a change of SignerOwnertrust: no cap
SignerOwnertrustUncapped(tmp) == TrustMask(tmp.ownertrust)

\* ot = tmp.r.dir.ownertrust & TRUST_MASK, capped at TRUST_FULLY
SignerOwnertrust(tmp) ==
    LET ot == TrustMask(tmp.ownertrust)
    IN  IF ot >= TRUST_FULLY THEN TRUST_FULLY ELSE ot

\* a change of QuorumReached: both thresholds are asked for
QuorumBoth(fully, marginal) ==
    fully >= opt.completes_needed /\ marginal >= opt.marginals_needed

\* the quorum test after the counters were incremented
QuorumReached(fully, marginal) ==
    fully >= opt.completes_needed \/ marginal >= opt.marginals_needed

\* the value returned after all signatures were seen
VkFinal(marginal) ==
    IF marginal > 0 THEN TRUST_MARGINAL ELSE TRUST_UNDEFINED

RECURSIVE verify_key(_, _, _, _)
RECURSIVE vk_uid_loop(_, _, _, _, _, _)
RECURSIVE vk_sig_loop(_, _, _, _, _, _, _)
RECURSIVE vk_slot_loop(_, _, _, _, _, _, _, _)

\* for(i=0; i < SIGS_PER_RECORD; i++) over the slots of the Sig record rec
vk_slot_loop(db, depth, max_depth, rec, i, uidrn, marginal, fully) ==
    IF i > SIGS_PER_RECORD
    THEN vk_sig_loop(db, depth, max_depth, rec.next, uidrn, marginal, fully)
    ELSE
      LET s == rec.sig[i] IN
      IF ~SlotCounts(s)
      THEN vk_slot_loop(db, depth, max_depth, rec, i + 1, uidrn, marginal, fully)
      ELSE IF ~ReadOk(db, s.lid, RECTYPE_DIR) THEN VkDied
      ELSE
        LET tmp == db[s.lid]
            ot == SignerOwnertrust(tmp)
            r == verify_key(db, depth + 1, max_depth, tmp)
            nt == TrustMask(r.trust)
            fully2 == IF nt >= TRUST_FULLY THEN fully + 1 ELSE fully
            marginal2 == IF nt >= TRUST_MARGINAL THEN marginal + 1 ELSE marginal
        IN  IF r.died THEN VkDied
            ELSE IF nt < TRUST_MARGINAL
            THEN vk_slot_loop(db, depth, max_depth, rec, i + 1, uidrn,
                              marginal, fully)
            ELSE IF nt = TRUST_ULTIMATE THEN VkRet(ot)
            ELSE IF QuorumReached(fully2, marginal2) THEN VkRet(TRUST_FULLY)
            ELSE vk_slot_loop(db, depth, max_depth, rec, i + 1, uidrn,
                              marginal2, fully2)

\* for( rn = rec.r.uid.siglist; rn; rn = sigrn ) over the Sig records of a uid
vk_sig_loop(db, depth, max_depth, rn, uidrn, marginal, fully) ==
    IF rn = 0 THEN vk_uid_loop(db, depth, max_depth, uidrn, marginal, fully)
    ELSE IF ~ReadOk(db, rn, RECTYPE_SIG) THEN VkDied
    ELSE vk_slot_loop(db, depth, max_depth, db[rn], 1, uidrn, marginal, fully)

\* for( rn = drec->r.dir.uidlist; rn; rn = uidrn ) over the Uid records
vk_uid_loop(db, depth, max_depth, rn, marginal, fully) ==
    IF rn = 0 THEN VkRet(VkFinal(marginal))
    ELSE IF ~ReadOk(db, rn, RECTYPE_UID) THEN VkDied
    ELSE vk_sig_loop(db, depth, max_depth, db[rn].siglist, db[rn].next,
                     marginal, fully)

\* a change of verify_key: the table of own keys is asked before the depth
verify_key_ulti_first(db, depth, max_depth, drec) ==
    IF qry_lid_table_flag(ultikey_table, drec.lid) THEN VkRet(TRUST_ULTIMATE)
    ELSE IF TooDeep(depth, max_depth) THEN VkRet(TRUST_UNDEFINED)
    ELSE vk_uid_loop(db, depth, max_depth, drec.uidlist, 0, 0)

verify_key(db, depth, max_depth, drec) ==
    IF TooDeep(depth, max_depth) THEN VkRet(TRUST_UNDEFINED)
    ELSE IF qry_lid_table_flag(ultikey_table, drec.lid) THEN VkRet(TRUST_ULTIMATE)
    ELSE vk_uid_loop(db, depth, max_depth, drec.uidlist, 0, 0)

\* the outcome of do_check / check_trust: rc, the trust level, died
Outcome(rc, level, died) == [rc |-> rc, trustlevel |-> level, died |-> died]

\* *trustlevel |= TRUST_FLAG_REVOKED
OrRevoked(level, dr) ==
    IF DIRF_REVOKED \in dr.dirflags /\ level < TRUST_FLAG_REVOKED
    THEN level + TRUST_FLAG_REVOKED ELSE level

do_check(db, dr) ==
    IF dr.keylist = 0 THEN Outcome(G10ERR_TRUSTDB, TRUST_UNKNOWN, FALSE)
    ELSE IF dr.uidlist = 0 THEN Outcome(G10ERR_TRUSTDB, TRUST_UNKNOWN, FALSE)
    ELSE LET r == verify_key(db, 1, 5, dr)
         IN  IF r.died THEN Outcome(RC_OK, TRUST_UNKNOWN, TRUE)
             ELSE Outcome(RC_OK, OrRevoked(r.trust, dr), FALSE)

-----------------------------------------------------------------------------
(* walk_sigrecs: the iterator over the signatures of a key.                *)

\* the context a caller hands to walk_sigrecs: all fields zero but lid.
\* next and sig are the fields r.sig.next and r.sig.sig of c->ctl.rec
SigrecContext(lid) ==
    [lid |-> lid, eof |-> FALSE, init_done |-> FALSE, nextuid |-> 0,
     index |-> 0, next |-> 0, sig |-> [i \in 1..SIGS_PER_RECORD |-> FreeSlot],
     sig_lid |-> 0, sig_flag |-> {}]

\* what one call of walk_sigrecs gives: rc (0, or -1 for eof), the context,
\* and whether the process has exited
WsRet(rc, c) == [rc |-> rc, c |-> c, died |-> FALSE]
WsDied(c) == [rc |-> 0, c |-> c, died |-> TRUE]

RECURSIVE WsLoop(_, _)

\* while( !r->r.sig.sig[c->ctl.index++].lid ) and the return of the slot
WsSlot(db, c) ==
    IF c.sig[c.index + 1].lid = 0
    THEN WsLoop(db, [c EXCEPT !.index = @ + 1])
    ELSE WsRet(0, [c EXCEPT !.index = @ + 1,
                            !.sig_lid = c.sig[c.index + 1].lid,
                            !.sig_flag = c.sig[c.index + 1].flag])

\* the Sig record rnum is read; nextuid is c->ctl.nextuid by now
WsRead(db, c, rnum, nextuid) ==
    IF rnum = 0 THEN WsRet(-1, [c EXCEPT !.eof = TRUE, !.nextuid = nextuid])
    ELSE IF ~ReadOk(db, rnum, RECTYPE_SIG) THEN WsDied(c)
    ELSE IF db[rnum].lid # c.lid THEN WsDied([c EXCEPT !.eof = TRUE])
    ELSE WsSlot(db, [c EXCEPT !.nextuid = nextuid, !.index = 0,
                              !.next = db[rnum].next, !.sig = db[rnum].sig])

\* the body of the do loop: at the end of a record the next Sig record is
\* read, and the next Uid record before it if the chain has ended
WsLoop(db, c) ==
    IF c.index < SIGS_PER_RECORD THEN WsSlot(db, c)
    ELSE IF c.next = 0 /\ c.nextuid # 0
    THEN IF ~ReadOk(db, c.nextuid, RECTYPE_UID) THEN WsDied(c)
         ELSE WsRead(db, c, db[c.nextuid].siglist, db[c.nextuid].next)
    ELSE WsRead(db, c, c.next, c.nextuid)

\* walk_sigrecs( c )
walk_sigrecs(db, c) ==
    IF c.eof THEN WsRet(-1, c)
    ELSE IF c.init_done THEN WsLoop(db, c)
    ELSE IF ~ReadOk(db, c.lid, RECTYPE_ANY) THEN WsDied(c)
    ELSE IF db[c.lid].rectype # RECTYPE_DIR
    THEN WsRet(-1, [c EXCEPT !.init_done = TRUE, !.eof = TRUE])
    ELSE WsLoop(db, [c EXCEPT !.init_done = TRUE,
                              !.nextuid = db[c.lid].uidlist,
                              !.index = SIGS_PER_RECORD, !.next = 0])

-----------------------------------------------------------------------------
(* The keyring and the collaborators of trustdb.c (getkey.c, sig-check.c,  *)
(* keyid.c, tdbio.c), as far as trustdb.c relies on them.                  *)

PKT_PUBLIC_KEY == "PKT_PUBLIC_KEY"
PKT_PUBLIC_SUBKEY == "PKT_PUBLIC_SUBKEY"
PKT_USER_ID == "PKT_USER_ID"
PKT_SIGNATURE == "PKT_SIGNATURE"

NoKeyblock == <<>>

\* a public key packet; local_id is the cached LID of the key (0: unset)
PubKey(keyid, algo, fprlen, fpr) ==
    [pkttype |-> PKT_PUBLIC_KEY, keyid |-> keyid, pubkey_algo |-> algo,
     fingerprint_len |-> fprlen, fingerprint |-> fpr]

SubKey(keyid, algo, fprlen, fpr) ==
    [pkttype |-> PKT_PUBLIC_SUBKEY, keyid |-> keyid, pubkey_algo |-> algo,
     fingerprint_len |-> fprlen, fingerprint |-> fpr]

UserId(name) == [pkttype |-> PKT_USER_ID, name |-> name]

\* a signature packet; good: the signature verifies under the signer's key;
\* prefs: the (preftype, algo) pairs of its preference subpackets
Signature(keyid, algo, class, good, prefs) ==
    [pkttype |-> PKT_SIGNATURE, keyid |-> keyid, pubkey_algo |-> algo,
     sig_class |-> class, good |-> good, prefs |-> prefs]

\* (sig_class & ~3) == 0x10
IsCertClass(class) == class \in 16..19

\* rmd160_hash_buffer of a user id string: distinct names, distinct hashes
rmd160_hash_buffer(name) == 1000 + name

\* keyid_from_fingerprint: the key id belonging to a fingerprint (a primary
\* key k has fingerprint 10k and key id k, its subkey j has fingerprint
\* 10k + j and key id 100 + 10k + j)
keyid_from_fingerprint(fpr) == IF fpr % 10 = 0 THEN fpr \div 10 ELSE 100 + fpr

\* find_kbnode( keyblock, PKT_PUBLIC_KEY )->pkt->pkt.public_key
PrimaryKey(keyblock) == keyblock[1]

\* the keyblocks of the ring
RingKeys(kr) == {k \in DOMAIN kr : kr[k] # NoKeyblock}

\* get_pubkey( pk, keyid ): the primary key with this key id is in the ring
get_pubkey_ok(kr, keyid) == \E k \in RingKeys(kr) : PrimaryKey(kr[k]).keyid = keyid

\* get_keyblock_byfprint: the key of the ring that has a (sub)key with
\* this fingerprint, 0 if there is none
get_keyblock_byfprint(kr, fprlen, fpr) ==
    LET has(k) == \E i \in 1..Len(kr[k]) :
                      /\ kr[k][i].pkttype \in {PKT_PUBLIC_KEY, PKT_PUBLIC_SUBKEY}
                      /\ kr[k][i].fingerprint_len = fprlen
                      /\ kr[k][i].fingerprint = fpr
        hits == {k \in RingKeys(kr) : has(k)}
    IN  IF hits = {} THEN 0 ELSE CHOOSE k \in hits : \A j \in hits : k <= j

\* check_key_signature( keyblock, signode ): 0, G10ERR_NO_PUBKEY when the
\* signer's key is not in the ring, or another error for a bad signature
check_key_signature(kr, keyblock, sig) ==
    IF sig.keyid # PrimaryKey(keyblock).keyid /\ ~get_pubkey_ok(kr, sig.keyid)
    THEN G10ERR_NO_PUBKEY
    ELSE IF sig.good THEN RC_OK ELSE G10ERR_BAD_SIGN

\* tdbio_search_dir_byfpr / tdbio_search_dir_bypk: the Dir that owns a Key
\* record with this fingerprint (its recnum), 0 if not found
tdbio_search_dir_byfpr(db, fprlen, fpr) ==
    LET hits == {n \in 1..Len(db) :
                    /\ db[n].rectype = RECTYPE_KEY
                    /\ db[n].fingerprint_len = fprlen
                    /\ db[n].fingerprint = fpr
                    /\ ReadOk(db, db[n].lid, RECTYPE_DIR)}
    IN  IF hits = {} THEN 0
        ELSE db[CHOOSE n \in hits : \A m \in hits : n <= m].lid

tdbio_search_dir_bypk(db, pk) ==
    tdbio_search_dir_byfpr(db, pk.fingerprint_len, pk.fingerprint)

\* tdbio_search_sdir( keyid, pubkey_algo ): the recnum of the shadow dir
\* record of this key, 0 if not found
tdbio_search_sdir(db, keyid, algo) ==
    LET hits == {n \in 1..Len(db) :
                    /\ db[n].rectype = RECTYPE_SDIR
                    /\ db[n].keyid = keyid
                    /\ db[n].pubkey_algo = algo}
    IN  IF hits = {} THEN 0 ELSE CHOOSE n \in hits : \A m \in hits : n <= m

-----------------------------------------------------------------------------
(* create_shadow_dir.                                                      *)

\* a change of HintScan: the scan ends at the first free slot
RECURSIVE HintScanFirst(_, _, _, _, _, _)
HintScanFirst(db, recno, i, lid, tmprecno, tmpidx) ==
    IF recno = 0 THEN [died |-> FALSE, present |-> FALSE,
                       tmprecno |-> tmprecno, tmpidx |-> tmpidx]
    ELSE IF ~ReadOk(db, recno, RECTYPE_HLST)
    THEN [died |-> TRUE, present |-> FALSE, tmprecno |-> 0, tmpidx |-> 0]
    ELSE IF i > ITEMS_PER_HLST_RECORD
    THEN HintScanFirst(db, db[recno].next, 1, lid, tmprecno, tmpidx)
    ELSE IF db[recno].rnum[i] = 0
    THEN [died |-> FALSE, present |-> FALSE, tmprecno |-> recno, tmpidx |-> i]
    ELSE IF db[recno].rnum[i] = lid
    THEN [died |-> FALSE, present |-> TRUE, tmprecno |-> tmprecno, tmpidx |-> tmpidx]
    ELSE HintScanFirst(db, recno, i + 1, lid, tmprecno, tmpidx)

\* the first free slot (record, index) of a hint list chain, and whether
\* lid is already in the chain; died when a record of the chain is no Hlst
RECURSIVE HintScan(_, _, _, _, _, _)
HintScan(db, recno, i, lid, tmprecno, tmpidx) ==
    IF recno = 0 THEN [died |-> FALSE, present |-> FALSE,
                       tmprecno |-> tmprecno, tmpidx |-> tmpidx]
    ELSE IF ~ReadOk(db, recno, RECTYPE_HLST)
    THEN [died |-> TRUE, present |-> FALSE, tmprecno |-> 0, tmpidx |-> 0]
    ELSE IF i > ITEMS_PER_HLST_RECORD
    THEN HintScan(db, db[recno].next, 1, lid, tmprecno, tmpidx)
    ELSE IF db[recno].rnum[i] = 0
    THEN IF tmprecno = 0 THEN HintScan(db, recno, i + 1, lid, recno, i)
         ELSE HintScan(db, recno, i + 1, lid, tmprecno, tmpidx)
    ELSE IF db[recno].rnum[i] = lid
    THEN [died |-> FALSE, present |-> TRUE, tmprecno |-> tmprecno, tmpidx |-> tmpidx]
    ELSE HintScan(db, recno, i + 1, lid, tmprecno, tmpidx)

\* returns the new database, the LID of the shadow dir, and died
create_shadow_dir(db, sig, lid) ==
    LET found == tdbio_search_sdir(db, sig.keyid, sig.pubkey_algo)
        newlid == IF found = 0 THEN tdbio_new_recnum(db) ELSE found
        db1 == IF found = 0
               THEN write_record(db, newlid,
                                 SdirRec(newlid, sig.keyid, sig.pubkey_algo, 0))
               ELSE db
        sdir == db1[newlid]
        scan == HintScan(db1, sdir.hintlist, 1, lid, 0, 0)
        hlstno == tdbio_new_recnum(db1)
        newhlst == HlstRec(sdir.hintlist,
                           [i \in 1..ITEMS_PER_HLST_RECORD |->
                               IF i = 1 THEN lid ELSE 0])
    IN  IF scan.died THEN [db |-> db1, newlid |-> newlid, died |-> TRUE]
        ELSE IF scan.present THEN [db |-> db1, newlid |-> newlid, died |-> FALSE]
        ELSE IF scan.tmprecno # 0
        THEN [db |-> [db1 EXCEPT ![scan.tmprecno].rnum[scan.tmpidx] = lid],
              newlid |-> newlid, died |-> FALSE]
        ELSE [db |-> write_record(write_record(db1, hlstno, newhlst), newlid,
                                  [sdir EXCEPT !.hintlist = hlstno]),
              newlid |-> newlid, died |-> FALSE]

-----------------------------------------------------------------------------
(* The keyblock reconciler.  The local state of update_trust_record is the *)
(* record S: db (the database), died, drecnum and drec (the Dir record     *)
(* held in memory), dirty (drec.dirty), uidrecno, uidhash, recno_list.     *)

Die(S) == [S EXCEPT !.died = TRUE]

\* a change of qry_recno_list: every record counts as retained
qry_recno_list_any(list, recno, type) == TRUE

\* ins_recno_list / qry_recno_list
ins_recno_list(list, recno, type) == list \cup {<<recno, type>>}
qry_recno_list(list, recno, type) == <<recno, type>> \in list

\* the record of a chain of Key records that has this fingerprint (0: none)
RECURSIVE FindKeyRec(_, _, _, _)
FindKeyRec(db, recno, fprlen, fpr) ==
    IF recno = 0 THEN [died |-> FALSE, recno |-> 0]
    ELSE IF ~ReadOk(db, recno, RECTYPE_KEY) THEN [died |-> TRUE, recno |-> 0]
    ELSE IF db[recno].fingerprint_len = fprlen /\ db[recno].fingerprint = fpr
    THEN [died |-> FALSE, recno |-> recno]
    ELSE FindKeyRec(db, db[recno].next, fprlen, fpr)

\* the record of a chain of Uid records that has this namehash (0: none)
RECURSIVE FindUidRec(_, _, _)
FindUidRec(db, recno, namehash) ==
    IF recno = 0 THEN [died |-> FALSE, recno |-> 0]
    ELSE IF ~ReadOk(db, recno, RECTYPE_UID) THEN [died |-> TRUE, recno |-> 0]
    ELSE IF db[recno].namehash = namehash THEN [died |-> FALSE, recno |-> recno]
    ELSE FindUidRec(db, db[recno].next, namehash)

\* for( ; recno; recno = rec.next ) read_record( recno, &rec, type ):
\* the last record of a non-empty chain
RECURSIVE LastOfChain(_, _, _)
LastOfChain(db, recno, type) ==
    IF ~ReadOk(db, recno, type) THEN [died |-> TRUE, recno |-> 0]
    ELSE IF db[recno].next = 0 THEN [died |-> FALSE, recno |-> recno]
    ELSE LastOfChain(db, db[recno].next, type)

upd_key_record(S, pk) ==
    LET f == FindKeyRec(S.db, S.drec.keylist, pk.fingerprint_len, pk.fingerprint)
        newrecno == tdbio_new_recnum(S.db)
        krec == KeyRec(S.drecnum, 0, pk.pubkey_algo, pk.fingerprint_len,
                       pk.fingerprint)
        db1 == write_record(S.db, newrecno, krec)
        list1 == ins_recno_list(S.recno_list, newrecno, RECTYPE_KEY)
        last == LastOfChain(db1, S.drec.keylist, RECTYPE_KEY)
    IN  IF f.died THEN Die(S)
        ELSE IF f.recno # 0
        THEN [S EXCEPT !.recno_list = ins_recno_list(@, f.recno, RECTYPE_KEY)]
        ELSE IF S.drec.keylist = 0
        THEN [S EXCEPT !.db = db1, !.recno_list = list1,
                       !.drec.keylist = newrecno, !.dirty = TRUE]
        ELSE IF last.died THEN Die([S EXCEPT !.db = db1])
        ELSE [S EXCEPT !.db = [db1 EXCEPT ![last.recno].next = newrecno],
                       !.recno_list = list1]

upd_uid_record(S, uid) ==
    LET uidhash == rmd160_hash_buffer(uid.name)
        f == FindUidRec(S.db, S.drec.uidlist, uidhash)
        newrecno == tdbio_new_recnum(S.db)
        urec == UidRec(S.drecnum, 0, 0, 0, {}, uidhash)
        db1 == write_record(S.db, newrecno, urec)
        list1 == ins_recno_list(S.recno_list, newrecno, RECTYPE_UID)
        last == LastOfChain(db1, S.drec.uidlist, RECTYPE_UID)
    IN  IF f.died THEN Die(S)
        ELSE IF f.recno # 0
        THEN [S EXCEPT !.recno_list = ins_recno_list(@, f.recno, RECTYPE_UID),
                       !.uidrecno = f.recno, !.uidhash = uidhash]
        ELSE IF S.drec.uidlist = 0
        THEN [S EXCEPT !.db = db1, !.recno_list = list1, !.uidrecno = newrecno,
                       !.uidhash = uidhash,
                       !.drec.uidlist = newrecno, !.dirty = TRUE]
        ELSE IF last.died THEN Die([S EXCEPT !.db = db1])
        ELSE [S EXCEPT !.db = [db1 EXCEPT ![last.recno].next = newrecno],
                       !.recno_list = list1, !.uidrecno = newrecno,
                       !.uidhash = uidhash]

\* pairs of preferences per Pref record (ITEMS_PER_PREF_RECORD / 2), and
\* the size of recno_tbl in upd_pref_record
PrefPairsPerRecord == 1
MaxPrefRecs == 10

\* a change of DeleteChain: the records of the chain stay
DeleteChainKept(db, recno, type) == [db |-> db, died |-> FALSE]

\* delete the records of a chain, each read with its type before
RECURSIVE DeleteChain(_, _, _)
DeleteChain(db, recno, type) ==
    IF recno = 0 THEN [db |-> db, died |-> FALSE]
    ELSE IF ~ReadOk(db, recno, type) THEN [db |-> db, died |-> TRUE]
    ELSE DeleteChain(delete_record(db, recno), db[recno].next, type)

\* the preferences of a signature cut into the data of consecutive records
RECURSIVE PrefChunks(_)
PrefChunks(prefs) ==
    IF Len(prefs) = 0 THEN <<>>
    ELSE IF Len(prefs) <= PrefPairsPerRecord THEN <<prefs>>
    ELSE <<SubSeq(prefs, 1, PrefPairsPerRecord)>>
         \o PrefChunks(SubSeq(prefs, PrefPairsPerRecord + 1, Len(prefs)))

\* upd_pref_record: returns the database and the new urec.prefrec
upd_pref_record(db, sig, lid, urec) ==
    LET del == DeleteChain(db, urec.prefrec, RECTYPE_PREF)
        all == PrefChunks(sig.prefs)
        chunks == IF Len(all) > MaxPrefRecs THEN SubSeq(all, 1, MaxPrefRecs)
                  ELSE all
        n == Len(chunks)
        base == Len(del.db)
        \* record i of the chain gets recnum base + i and links to the next
        recs == [i \in 1..n |->
                    PrefRec(lid, IF i < n THEN base + i + 1 ELSE 0, chunks[i])]
    IN  [db |-> del.db \o recs, died |-> del.died,
         prefrec |-> IF n > 0 THEN base + 1 ELSE 0]

\* a change of upd_self_key_sigs: the preferences are taken before the
\* signature is verified
upd_self_key_sigs_eager(db, kr, keyblock, sig, urec, lid) ==
    IF UIDF_CHECKED \in urec.uidflags
    THEN [db |-> db, died |-> FALSE, urec |-> urec, dirty |-> FALSE]
    ELSE LET p == upd_pref_record(db, sig, lid, urec)
         IN  [db |-> p.db, died |-> p.died,
              urec |-> [urec EXCEPT !.prefrec = p.prefrec,
                                    !.uidflags =
                                       IF check_key_signature(kr, keyblock, sig) = RC_OK
                                       THEN {UIDF_CHECKED, UIDF_VALID}
                                       ELSE {UIDF_CHECKED}],
              dirty |-> TRUE]

\* upd_self_key_sigs: returns the database and urec (urec.dirty in dirty)
upd_self_key_sigs(db, kr, keyblock, sig, urec, lid) ==
    IF UIDF_CHECKED \in urec.uidflags
    THEN [db |-> db, died |-> FALSE, urec |-> urec, dirty |-> FALSE]
    ELSE IF check_key_signature(kr, keyblock, sig) = RC_OK
    THEN LET p == upd_pref_record(db, sig, lid, urec)
         IN  [db |-> p.db, died |-> p.died,
              urec |-> [urec EXCEPT !.prefrec = p.prefrec,
                                    !.uidflags = {UIDF_CHECKED, UIDF_VALID}],
              dirty |-> TRUE]
    ELSE [db |-> db, died |-> FALSE,
          urec |-> [urec EXCEPT !.uidflags = {UIDF_CHECKED}], dirty |-> TRUE]

\* the LID of the pubkey of the signature under verification (0: unknown):
\* the Dir of the signer or, if it has none, its shadow dir; only looked up
\* when get_pubkey finds the signer in the ring
SignerLid(db, kr, sig) ==
    IF ~get_pubkey_ok(kr, sig.keyid) THEN 0
    ELSE LET k == CHOOSE k \in RingKeys(kr) : PrimaryKey(kr[k]).keyid = sig.keyid
             pk == PrimaryKey(kr[k])
             dir == tdbio_search_dir_bypk(db, pk)
         IN  IF dir # 0 THEN dir
             ELSE tdbio_search_sdir(db, pk.keyid, pk.pubkey_algo)

\* a change of FlagOfCheck: a missing key is noted on top of CHECKED
FlagOfCheckNoted(rc) ==
    IF rc = RC_OK THEN {SIGF_CHECKED, SIGF_VALID}
    ELSE IF rc = G10ERR_NO_PUBKEY THEN {SIGF_CHECKED, SIGF_NOPUBKEY}
    ELSE {SIGF_CHECKED}

\* the flag a signature check leaves in a slot
FlagOfCheck(rc) ==
    IF rc = RC_OK THEN {SIGF_CHECKED, SIGF_VALID}
    ELSE IF rc = G10ERR_NO_PUBKEY THEN {SIGF_NOPUBKEY}
    ELSE {SIGF_CHECKED}

\* The scan of a uid's Sig chain in upd_nonself_key_sigs.  T holds db, died,
\* recno and rec (the record in memory), dirty, delrecno, delrec, delrecidx,
\* found_delrec, found_sig.
RECURSIVE NonselfScan(_, _, _, _, _, _)
NonselfScan(T, kr, keyblock, sig, pk_lid, i) ==
    IF T.died THEN T
    ELSE IF T.recno = 0 THEN T
    ELSE IF i = 0
    THEN \* read_record( recno, &rec, RECTYPE_SIG )
         IF ~ReadOk(T.db, T.recno, RECTYPE_SIG) THEN [T EXCEPT !.died = TRUE]
         ELSE NonselfScan([T EXCEPT !.rec = T.db[T.recno], !.dirty = FALSE],
                          kr, keyblock, sig, pk_lid, 1)
    ELSE IF i > SIGS_PER_RECORD
    THEN \* end of the record: refresh delrec, write the record if dirty
         LET T1 == IF T.found_delrec /\ T.delrecno # 0
                   THEN [T EXCEPT !.delrec = T.rec, !.found_delrec = FALSE]
                   ELSE T
             T2 == IF T1.dirty
                   THEN [T1 EXCEPT !.db = write_record(@, T1.recno, T1.rec),
                                   !.dirty = FALSE]
                   ELSE T1
         IN  NonselfScan([T2 EXCEPT !.recno = T2.rec.next], kr, keyblock, sig,
                         pk_lid, 0)
    ELSE
      LET slot == T.rec.sig[i] IN
      IF slot.lid = 0
      THEN IF ~T.found_delrec /\ T.delrecno = 0
           THEN NonselfScan([T EXCEPT !.delrec = T.rec, !.delrecno = T.recno,
                                      !.delrecidx = i, !.found_delrec = TRUE],
                            kr, keyblock, sig, pk_lid, i + 1)
           ELSE NonselfScan(T, kr, keyblock, sig, pk_lid, i + 1)
      ELSE IF slot.lid = pk_lid /\ T.found_sig
      THEN \* duplicated signature - deleted
           NonselfScan([T EXCEPT !.rec.sig[i].lid = 0, !.dirty = TRUE],
                       kr, keyblock, sig, pk_lid, i + 1)
      ELSE
        LET T1 == IF slot.lid = pk_lid THEN [T EXCEPT !.found_sig = TRUE] ELSE T IN
        IF SIGF_CHECKED \in slot.flag \/ SIGF_NOPUBKEY \in slot.flag
        THEN NonselfScan(T1, kr, keyblock, sig, pk_lid, i + 1)
        ELSE IF ~ReadOk(T1.db, slot.lid, RECTYPE_ANY) THEN [T1 EXCEPT !.died = TRUE]
        ELSE
          LET tmp == T1.db[slot.lid] IN
          IF tmp.rectype = RECTYPE_DIR
          THEN NonselfScan(
                 [T1 EXCEPT !.rec.sig[i].flag =
                                FlagOfCheck(check_key_signature(kr, keyblock, sig)),
                            !.dirty = TRUE],
                 kr, keyblock, sig, pk_lid, i + 1)
          ELSE IF tmp.rectype = RECTYPE_SDIR
          THEN IF tmp.keyid = sig.keyid
                  /\ (tmp.pubkey_algo = 0 \/ tmp.pubkey_algo = sig.pubkey_algo)
               THEN NonselfScan([T1 EXCEPT !.rec.sig[i].flag = {SIGF_NOPUBKEY},
                                           !.dirty = TRUE],
                                kr, keyblock, sig, pk_lid, i + 1)
               ELSE NonselfScan(T1, kr, keyblock, sig, pk_lid, i + 1)
          ELSE [T1 EXCEPT !.died = TRUE]

\* a change of NewSigRec: the new Sig record does not name its owner
NewSigRecUnowned(lid, next, newlid, newflag) ==
    SigRec(0, next, [i \in 1..SIGS_PER_RECORD |->
                        IF i = 1 THEN SigSlot(newlid, newflag) ELSE FreeSlot])

\* a new Sig record with the slot (newlid, newflag) first
NewSigRec(lid, next, newlid, newflag) ==
    SigRec(lid, next, [i \in 1..SIGS_PER_RECORD |->
                          IF i = 1 THEN SigSlot(newlid, newflag) ELSE FreeSlot])

\* the end of upd_nonself_key_sigs: the signature goes into a deleted slot
\* or into a new Sig record; sh is the LID it names (the signer's, or the
\* shadow dir made for it)
NonselfStore(T, sh, newflag, urec, lid) ==
    IF sh.died
    THEN [db |-> sh.db, died |-> TRUE, urec |-> urec, dirty |-> FALSE]
    ELSE IF T.delrecno # 0
    THEN \* we can reuse a deleted slot
         [db |-> write_record(sh.db, T.delrecno,
                    [T.delrec EXCEPT !.sig[T.delrecidx] =
                                         SigSlot(sh.newlid, newflag)]),
          died |-> FALSE, urec |-> urec, dirty |-> FALSE]
    ELSE \* must insert a new sig record
         [db |-> write_record(sh.db, tdbio_new_recnum(sh.db),
                    NewSigRec(lid, urec.siglist, sh.newlid, newflag)),
          died |-> FALSE,
          urec |-> [urec EXCEPT !.siglist = tdbio_new_recnum(sh.db)],
          dirty |-> TRUE]

\* upd_nonself_key_sigs after the scan T of the Sig chain: rc is the result
\* of the signature check
NonselfInsert(T, pk_lid, rc, sig, urec, lid) ==
    IF T.died THEN [db |-> T.db, died |-> TRUE, urec |-> urec, dirty |-> FALSE]
    ELSE IF T.found_sig
    THEN [db |-> T.db, died |-> FALSE, urec |-> urec, dirty |-> FALSE]
    ELSE NonselfStore(T,
           IF rc = RC_OK THEN [db |-> T.db, newlid |-> pk_lid, died |-> FALSE]
           ELSE create_shadow_dir(T.db, sig, lid),
           FlagOfCheck(rc), urec, lid)

\* upd_nonself_key_sigs once pk_lid is known
NonselfWith(db, kr, keyblock, sig, urec, lid, pk_lid) ==
    NonselfInsert(
        NonselfScan([db |-> db, died |-> FALSE, recno |-> urec.siglist,
                     rec |-> FreeRec, dirty |-> FALSE, delrecno |-> 0,
                     delrec |-> FreeRec, delrecidx |-> 0,
                     found_delrec |-> FALSE, found_sig |-> FALSE],
                    kr, keyblock, sig, pk_lid, 0),
        pk_lid,
        IF pk_lid = 0 THEN G10ERR_NO_PUBKEY
        ELSE check_key_signature(kr, keyblock, sig),
        sig, urec, lid)

\* upd_nonself_key_sigs: returns the database and urec (urec.dirty in dirty)
upd_nonself_key_sigs(db, kr, keyblock, sig, urec, lid) ==
    NonselfWith(db, kr, keyblock, sig, urec, lid, SignerLid(db, kr, sig))

\* the switch over the signature class in upd_sig_record
SigClassSwitch(db, kr, keyblock, sig, urec, lid) ==
    IF ~IsCertClass(sig.sig_class)
    THEN [db |-> db, died |-> FALSE, urec |-> urec, dirty |-> FALSE]
    ELSE IF PrimaryKey(keyblock).keyid = sig.keyid
    THEN upd_self_key_sigs(db, kr, keyblock, sig, urec, lid)
    ELSE upd_nonself_key_sigs(db, kr, keyblock, sig, urec, lid)

\* if( urec.dirty ) write_record( &urec )
SigRecordDone(S, r) ==
    IF r.died THEN Die([S EXCEPT !.db = r.db])
    ELSE IF r.dirty
    THEN [S EXCEPT !.db = write_record(r.db, S.uidrecno, r.urec)]
    ELSE [S EXCEPT !.db = r.db]

\* upd_sig_record
upd_sig_record(S, kr, keyblock, sig) ==
    IF S.uidrecno = 0
    THEN S  \* 0x18, 0x20, 0x28 change nothing; others are refused
    ELSE IF ~ReadOk(S.db, S.uidrecno, RECTYPE_UID) THEN Die(S)
    ELSE SigRecordDone(S, SigClassSwitch(S.db, kr, keyblock, sig,
                                         S.db[S.uidrecno], S.drecnum))

\* the loop over the nodes of the keyblock in update_trust_record
RECURSIVE NodeLoop(_, _, _, _)
NodeLoop(S, kr, keyblock, n) ==
    IF S.died \/ n > Len(keyblock) THEN S
    ELSE
      LET node == keyblock[n]
          \* if( drec.dirty ) write_record( &drec )
          flushed == IF S.dirty
                     THEN [S EXCEPT !.db = write_record(@, S.drecnum, S.drec),
                                    !.dirty = FALSE]
                     ELSE S
      IN  IF node.pkttype \in {PKT_PUBLIC_KEY, PKT_PUBLIC_SUBKEY}
          THEN NodeLoop(upd_key_record([S EXCEPT !.uidrecno = 0], node),
                        kr, keyblock, n + 1)
          ELSE IF node.pkttype = PKT_USER_ID
          THEN NodeLoop(upd_uid_record(flushed, node), kr, keyblock, n + 1)
          ELSE IF node.pkttype = PKT_SIGNATURE
          THEN NodeLoop(upd_sig_record(flushed, kr, keyblock, node),
                        kr, keyblock, n + 1)
          ELSE NodeLoop(S, kr, keyblock, n + 1)

\* delete keyrecords from the trustdb which are not anymore used
RECURSIVE DeleteUnusedKeys(_, _, _)
DeleteUnusedKeys(S, recno, lastrecno) ==
    IF S.died \/ recno = 0 THEN S
    ELSE IF ~ReadOk(S.db, recno, RECTYPE_KEY) THEN Die(S)
    ELSE
      LET krec == S.db[recno] IN
      IF qry_recno_list(S.recno_list, recno, RECTYPE_KEY)
      THEN DeleteUnusedKeys(S, krec.next, recno)
      ELSE IF lastrecno = 0
      THEN DeleteUnusedKeys(
             [S EXCEPT !.drec.keylist = krec.next, !.dirty = TRUE,
                       !.db = delete_record(@, recno)],
             krec.next, lastrecno)
      ELSE IF ~ReadOk(S.db, lastrecno, RECTYPE_KEY) THEN Die(S)
      ELSE DeleteUnusedKeys(
             [S EXCEPT !.db = delete_record(
                                 [@ EXCEPT ![lastrecno].next = krec.next], recno)],
             krec.next, lastrecno)

\* delete uid records and sig and their pref records from the trustdb
\* which are not anymore used
\* a change of UnlinkUid: the record stays in the chain
UnlinkUidNot(S, urec, lastrecno) == S

\* the Uid record urec is taken out of the chain: the Dir record in memory
\* or the record before it gets its successor
UnlinkUid(S, urec, lastrecno) ==
    IF lastrecno = 0
    THEN [S EXCEPT !.drec.uidlist = urec.next, !.dirty = TRUE]
    ELSE [S EXCEPT !.db[lastrecno].next = urec.next]

RECURSIVE DeleteUnusedUids(_, _, _)
DeleteUnusedUids(S, recno, lastrecno) ==
    IF S.died \/ recno = 0 THEN S
    ELSE IF ~ReadOk(S.db, recno, RECTYPE_UID) THEN Die(S)
    ELSE
      LET urec == S.db[recno]
          unlinked == UnlinkUid(S, urec, lastrecno)
          prefs == DeleteChain(unlinked.db, urec.prefrec, RECTYPE_PREF)
          sigs == DeleteChain(prefs.db, urec.siglist, RECTYPE_SIG)
      IN  IF qry_recno_list(S.recno_list, recno, RECTYPE_UID)
          THEN DeleteUnusedUids(S, urec.next, recno)
          ELSE IF lastrecno # 0 /\ ~ReadOk(S.db, lastrecno, RECTYPE_UID) THEN Die(S)
          ELSE IF prefs.died THEN Die([S EXCEPT !.db = prefs.db])
          ELSE IF sigs.died THEN Die([S EXCEPT !.db = sigs.db])
          ELSE DeleteUnusedUids(
                 [unlinked EXCEPT !.db = delete_record(sigs.db, recno)],
                 urec.next, lastrecno)

\* what the record layer does to this call: nothing,
\* tdbio_begin_transaction fails, or tdbio_end_transaction fails
IO_OK == "io_ok"
IO_BEGIN_FAILS == "io_begin_fails"
IO_END_FAILS == "io_end_fails"

\* the outcome of update_trust_record and insert_trust_record.  modified
\* is *modified as the caller finds it; log is the sequence of the calls
\* of the record layer the operation made: "begin", "end", "end_failed"
\* (tdbio_begin_transaction, tdbio_end_transaction and its failure),
\* "sync" (do_sync) and "write" (a stretch of the operation in which
\* write_record or delete_record changed records)
UpdOutcome(db, rc, died, lid) ==
    [db |-> db, rc |-> rc, died |-> died, modified |-> FALSE, local_id |-> lid,
     log |-> <<>>]

\* the outcome o with calls before and after the ones it has
Logged(o, before, after) == [o EXCEPT !.log = before \o @ \o after]

\* the writes that led from db0 to db1
Writes(db0, db1) == IF db0 # db1 THEN <<"write">> ELSE <<>>

\* the two deletion loops of update_trust_record, each from the head of
\* its chain
DeleteKeysOf(S) == DeleteUnusedKeys(S, S.drec.keylist, 0)
DeleteUidsOf(S) == DeleteUnusedUids(S, S.drec.uidlist, 0)

\* a change of UpdEnd: a failing tdbio_end_transaction leaves the records
\* the transaction wrote
UpdEndKept(start, db, drecnum, io) ==
    Logged(UpdOutcome(db, IF io = IO_END_FAILS THEN G10ERR_TRUSTDB ELSE RC_OK,
                      FALSE, drecnum),
           <<"begin">> \o Writes(start, db),
           IF io = IO_END_FAILS THEN <<"end_failed">> ELSE <<"end">>)

\* tdbio_end_transaction at the end of update_trust_record, db being what
\* the transaction wrote: it commits db, or it fails and the store holds
\* what it held when the transaction began
UpdEnd(start, db, drecnum, io) ==
    IF io = IO_END_FAILS
    THEN Logged(UpdOutcome(start, G10ERR_TRUSTDB, FALSE, drecnum),
                <<"begin">> \o Writes(start, db), <<"end_failed">>)
    ELSE Logged(UpdOutcome(db, RC_OK, FALSE, drecnum),
                <<"begin">> \o Writes(start, db), <<"end">>)

\* the end of update_trust_record: the Dir record is written if it is dirty
UpdFinish(S, drecnum, io) ==
    IF S.died
    THEN Logged(UpdOutcome(S.db, RC_OK, TRUE, drecnum),
                <<"begin">> \o Writes(S.start, S.db), <<>>)
    ELSE UpdEnd(S.start,
                IF S.dirty
                THEN write_record(S.db, drecnum,
                         [S.drec EXCEPT !.dirflags = @ \ {DIRF_CHECKED}])
                ELSE S.db,
                drecnum, io)

\* update_trust_record after get_dir_record gave the number of the Dir record
UpdWithDir(db, kr, keyblock, drecnum, io) ==
    IF drecnum = 0 THEN UpdOutcome(db, RC_NOTFOUND, FALSE, 0)
    ELSE IF ~ReadOk(db, drecnum, RECTYPE_DIR)
    THEN UpdOutcome(db, RC_OK, TRUE, drecnum)
    ELSE IF io = IO_BEGIN_FAILS
    THEN UpdOutcome(db, G10ERR_TRUSTDB, FALSE, drecnum)
    ELSE UpdFinish(
           DeleteUidsOf(DeleteKeysOf(
             NodeLoop([db |-> db, died |-> FALSE, drecnum |-> drecnum,
                       drec |-> db[drecnum], dirty |-> FALSE, uidrecno |-> 0,
                       uidhash |-> 0, recno_list |-> {}, start |-> db],
                      kr, keyblock, 1))),
           drecnum, io)

\* update_trust_record( keyblock, modified ); local_id is
\* primary_pk->local_id as the caller has set it (0: unset)
update_trust_record(db, kr, keyblock, local_id, io) ==
    UpdWithDir(db, kr, keyblock,
               IF local_id # 0 THEN local_id
               ELSE tdbio_search_dir_bypk(db, PrimaryKey(keyblock)),
               io)

-----------------------------------------------------------------------------
(* The insertion path: check_hint_sig, process_hintlist,                   *)
(* insert_trust_record.                                                    *)

\* find the correct signature packet: the first certification by sigkid
\* that follows the user id with this hash (0: not found)
RECURSIVE FindSigNode(_, _, _, _, _)
FindSigNode(keyblock, n, state, uidrec_hash, sigkid) ==
    IF n > Len(keyblock) THEN 0
    ELSE IF keyblock[n].pkttype = PKT_USER_ID
    THEN IF state = 1 THEN 0
         ELSE IF rmd160_hash_buffer(keyblock[n].name) = uidrec_hash
         THEN FindSigNode(keyblock, n + 1, 1, uidrec_hash, sigkid)
         ELSE FindSigNode(keyblock, n + 1, state, uidrec_hash, sigkid)
    ELSE IF state = 1 /\ keyblock[n].pkttype = PKT_SIGNATURE
            /\ keyblock[n].keyid = sigkid /\ IsCertClass(keyblock[n].sig_class)
    THEN n
    ELSE FindSigNode(keyblock, n + 1, state, uidrec_hash, sigkid)

\* a change of check_hint_sig: the slot is left as it is
check_hint_sig_skip(db, kr, keyblock, uidrec_hash, slot) ==
    [slot |-> slot, died |-> FALSE]

\* check_hint_sig on one slot: the slot afterwards, and died
check_hint_sig(db, kr, keyblock, uidrec_hash, slot) ==
    LET same == [slot |-> slot, died |-> FALSE]
        tmp == db[slot.lid]
        krec == db[tmp.keylist]
        sigkid == keyid_from_fingerprint(krec.fingerprint)
        n == FindSigNode(keyblock, 1, 0, uidrec_hash, sigkid)
        is_selfsig == keyblock[n].keyid = PrimaryKey(keyblock).keyid
        rc == check_key_signature(kr, keyblock, keyblock[n])
    IN  IF ~ReadOk(db, slot.lid, RECTYPE_ANY) THEN [slot |-> slot, died |-> TRUE]
        ELSE IF tmp.rectype # RECTYPE_DIR THEN same
        ELSE IF tmp.keylist = 0 THEN same
        ELSE IF ~ReadOk(db, tmp.keylist, RECTYPE_KEY)
        THEN [slot |-> slot, died |-> TRUE]
        ELSE IF n = 0 THEN same
        ELSE IF is_selfsig THEN same
        ELSE [slot |-> [slot EXCEPT !.flag = FlagOfCheck(rc)], died |-> FALSE]

\* the Sig chain of one uid of a Dir of the hint list
RECURSIVE HintSigChain(_, _, _, _, _, _)
HintSigChain(D, kr, keyblock, uidrec_hash, r2, hint_owner) ==
    IF D.died \/ r2 = 0 THEN D
    ELSE IF ~ReadOk(D.db, r2, RECTYPE_SIG) THEN [D EXCEPT !.died = TRUE]
    ELSE
      LET sigrec == D.db[r2]
          mine(i) == sigrec.sig[i].lid # 0 /\ sigrec.sig[i].lid = hint_owner
          chk == [i \in 1..SIGS_PER_RECORD |->
                     IF mine(i)
                     THEN check_hint_sig(D.db, kr, keyblock, uidrec_hash,
                                         sigrec.sig[i])
                     ELSE [slot |-> sigrec.sig[i], died |-> FALSE]]
          newrec == [sigrec EXCEPT !.sig = [i \in 1..SIGS_PER_RECORD |-> chk[i].slot]]
      IN  IF \E i \in 1..SIGS_PER_RECORD : chk[i].died
          THEN [D EXCEPT !.died = TRUE]
          ELSE HintSigChain([D EXCEPT !.db = write_record(@, r2, newrec)],
                            kr, keyblock, uidrec_hash, sigrec.next, hint_owner)

\* the Uid chain of a Dir of the hint list
RECURSIVE HintUidChain(_, _, _, _, _)
HintUidChain(D, kr, keyblock, r1, hint_owner) ==
    IF D.died \/ r1 = 0 THEN D
    ELSE IF ~ReadOk(D.db, r1, RECTYPE_UID) THEN [D EXCEPT !.died = TRUE]
    ELSE HintUidChain(
           HintSigChain(D, kr, keyblock, D.db[r1].namehash, D.db[r1].siglist,
                        hint_owner),
           kr, keyblock, D.db[r1].next, hint_owner)

\* one entry of a Hlst record
HintItem(D, kr, lid, hint_owner) ==
    LET dirrec == D.db[lid]
        tmprec == D.db[dirrec.keylist]
        k == get_keyblock_byfprint(kr, tmprec.fingerprint_len, tmprec.fingerprint)
    IN  IF lid = 0 THEN D
        ELSE IF ~ReadOk(D.db, lid, RECTYPE_ANY) THEN [D EXCEPT !.died = TRUE]
        ELSE IF dirrec.rectype # RECTYPE_DIR THEN D
        ELSE IF dirrec.keylist = 0 THEN D
        ELSE IF ~ReadOk(D.db, dirrec.keylist, RECTYPE_KEY) THEN [D EXCEPT !.died = TRUE]
        ELSE IF k = 0 THEN D
        ELSE HintUidChain(D, kr, kr[k], dirrec.uidlist, hint_owner)

RECURSIVE HintItems(_, _, _, _, _)
HintItems(D, kr, hlstrec, idx, hint_owner) ==
    IF D.died \/ idx > ITEMS_PER_HLST_RECORD THEN D
    ELSE HintItems(HintItem(D, kr, hlstrec.rnum[idx], hint_owner),
                   kr, hlstrec, idx + 1, hint_owner)

\* delete_record( hlst_rn ) once the entries of the record are done
DropHlst(D, hlst_rn) ==
    IF D.died THEN D ELSE [D EXCEPT !.db = delete_record(@, hlst_rn)]

\* process_hintlist( hintlist, hint_owner ); D holds db and died
RECURSIVE process_hintlist(_, _, _, _)
process_hintlist(D, kr, hlst_rn, hint_owner) ==
    IF D.died \/ hlst_rn = 0 THEN D
    ELSE IF ~ReadOk(D.db, hlst_rn, RECTYPE_HLST) THEN [D EXCEPT !.died = TRUE]
    ELSE process_hintlist(
           DropHlst(HintItems(D, kr, D.db[hlst_rn], 1, hint_owner), hlst_rn),
           kr, D.db[hlst_rn].next, hint_owner)

\* the end of insert_trust_record, do_sync at the label leave: h is what
\* process_hintlist left, log the calls up to there
HintsDone(h, log, recnum) ==
    Logged(UpdOutcome(h.db, RC_OK, h.died, recnum),
           log, IF h.died THEN <<>> ELSE <<"sync">>)

\* insert_trust_record after update_trust_record returned u; the Dir
\* record has been written before update_trust_record was called, and
\* process_hintlist deletes the records of a hint list that is not empty
InsertDone(u, kr, hintlist, recnum) ==
    IF u.died \/ u.rc # RC_OK
    THEN Logged(UpdOutcome(u.db, u.rc, u.died, recnum),
                <<"write">> \o u.log, IF u.died THEN <<>> ELSE <<"sync">>)
    ELSE HintsDone(process_hintlist([db |-> u.db, died |-> FALSE], kr,
                                    hintlist, recnum),
                   <<"write">> \o u.log
                       \o (IF hintlist # 0 THEN <<"write">> ELSE <<>>),
                   recnum)

\* a change of InsertAt: the Dir record always gets a new number
InsertAtFresh(db, kr, keyblock, shadow, recnum, io) ==
    InsertDone(
        update_trust_record(
            write_record(db, tdbio_new_recnum(db),
                         DirRec(tdbio_new_recnum(db), 0, 0, 0, {})),
            kr, keyblock, tdbio_new_recnum(db), io),
        kr, IF shadow # 0 THEN db[shadow].hintlist ELSE 0, tdbio_new_recnum(db))

\* insert_trust_record once the keyblock is there: the Dir record takes the
\* number of the shadow dir of the key, if there is one
InsertAt(db, kr, keyblock, shadow, recnum, io) ==
    InsertDone(
        update_trust_record(
            write_record(db, recnum, DirRec(recnum, 0, 0, 0, {})),
            kr, keyblock, recnum, io),
        kr, IF shadow # 0 THEN db[shadow].hintlist ELSE 0, recnum)

\* insert_trust_record( pk ): pk is a key packet with no local_id
insert_trust_record(db, kr, pk, io) ==
    LET k == get_keyblock_byfprint(kr, pk.fingerprint_len, pk.fingerprint)
        shadow == tdbio_search_sdir(db, pk.keyid, pk.pubkey_algo)
    IN  IF k = 0
        THEN Logged(UpdOutcome(db, G10ERR_NO_PUBKEY, FALSE, 0), <<>>, <<"sync">>)
        ELSE IF PrimaryKey(kr[k]).keyid # pk.keyid
        THEN Logged(UpdOutcome(db, G10ERR_GENERAL, FALSE, 0), <<>>, <<"sync">>)
        ELSE InsertAt(db, kr, kr[k], shadow,
                      IF shadow # 0 THEN shadow ELSE tdbio_new_recnum(db), io)

\* update_ownertrust( lid, new_trust )
update_ownertrust(db, lid, new_trust) ==
    IF ~ReadOk(db, lid, RECTYPE_DIR) THEN UpdOutcome(db, RC_OK, TRUE, lid)
    ELSE Logged(UpdOutcome([db EXCEPT ![lid].ownertrust = new_trust],
                           RC_OK, FALSE, lid),
                <<"write">>, <<"sync">>)

\* clear_trust_checked_flag( pk ): get_dir_record, and the Dir record is
\* written only if DIRF_CHECKED is set
ClearChecked(db, lid) ==
    IF lid = 0 THEN UpdOutcome(db, RC_NOTFOUND, FALSE, 0)
    ELSE IF ~ReadOk(db, lid, RECTYPE_DIR) THEN UpdOutcome(db, RC_OK, TRUE, lid)
    ELSE IF DIRF_CHECKED \notin db[lid].dirflags
    THEN UpdOutcome(db, RC_OK, FALSE, lid)
    ELSE Logged(UpdOutcome([db EXCEPT ![lid].dirflags = @ \ {DIRF_CHECKED}],
                           RC_OK, FALSE, lid),
                <<"write">>, <<"sync">>)

clear_trust_checked_flag(db, pk) ==
    ClearChecked(db, IF pk.local_id # 0 THEN pk.local_id
                     ELSE tdbio_search_dir_bypk(db, pk))

-----------------------------------------------------------------------------
(* export_ownertrust, import_ownertrust.  The text is a sequence of lines, *)
(* a line a sequence of characters.                                        *)

\* the character set of the text, with the codes the C code computes with
CharCode ==
    [c \in {"0", "1", "2", "3", "4", "5", "6", "7", "8", "9",
             "A", "B", "C", "D", "E", "F", "a", "b", "c", "d", "e", "f",
             ":", "#", "\n"} |->
        CASE c = "0" -> 48 [] c = "1" -> 49 [] c = "2" -> 50 [] c = "3" -> 51
          [] c = "4" -> 52 [] c = "5" -> 53 [] c = "6" -> 54 [] c = "7" -> 55
          [] c = "8" -> 56 [] c = "9" -> 57
          [] c = "A" -> 65 [] c = "B" -> 66 [] c = "C" -> 67 [] c = "D" -> 68
          [] c = "E" -> 69 [] c = "F" -> 70
          [] c = "a" -> 97 [] c = "b" -> 98 [] c = "c" -> 99 [] c = "d" -> 100
          [] c = "e" -> 101 [] c = "f" -> 102
          [] c = ":" -> 58 [] c = "#" -> 35 [] c = "\n" -> 10]

\* the bytes of a fingerprint: byte i of the fingerprint fpr of length len
FprBytes(fpr, len) == [i \in 1..len |-> (fpr * i) % 256]

\* printf( "%02X", b )
HexDigits == <<"0", "1", "2", "3", "4", "5", "6", "7", "8", "9",
               "A", "B", "C", "D", "E", "F">>
HexOfByte(b) == <<HexDigits[(b \div 16) + 1], HexDigits[(b % 16) + 1]>>

RECURSIVE HexOfBytes(_)
HexOfBytes(bytes) ==
    IF bytes = <<>> THEN <<>>
    ELSE HexOfByte(Head(bytes)) \o HexOfBytes(Tail(bytes))

\* printf( "%u", n )
RECURSIVE DecOf(_)
DecOf(n) ==
    IF n < 10 THEN <<HexDigits[n + 1]>>
    ELSE DecOf(n \div 10) \o <<HexDigits[(n % 10) + 1]>>

\* the line export_ownertrust prints for the Dir record rec, <<>> if none
ExportLine(db, rec) ==
    IF rec.rectype # RECTYPE_DIR THEN <<>>
    ELSE IF rec.keylist = 0 THEN <<>>
    ELSE IF rec.ownertrust = 0 THEN <<>>
    ELSE IF ~ReadOk(db, rec.keylist, RECTYPE_KEY) THEN <<>>
    ELSE <<HexOfBytes(FprBytes(db[rec.keylist].fingerprint,
                               db[rec.keylist].fingerprint_len))
           \o <<":">> \o DecOf(rec.ownertrust) \o <<":", "\n">>>>

\* the loop of export_ownertrust over the records from recnum on
RECURSIVE ExportFrom(_, _)
ExportFrom(db, recnum) ==
    IF recnum > Len(db) THEN <<>>
    ELSE ExportLine(db, db[recnum]) \o ExportFrom(db, recnum + 1)

\* export_ownertrust(): the text printed, after the comment lines
export_ownertrust(db) == <<<<"#", "\n">>, <<"#", "\n">>>> \o ExportFrom(db, 1)

\* isxdigit( c )
isxdigit(c) ==
    \/ (CharCode[c] >= CharCode["0"] /\ CharCode[c] <= CharCode["9"])
    \/ (CharCode[c] >= CharCode["A"] /\ CharCode[c] <= CharCode["F"])
    \/ (CharCode[c] >= CharCode["a"] /\ CharCode[c] <= CharCode["f"])

\* a change of HEXTOBIN: the letters are taken as lower case only
HEXTOBIN_lower(a) ==
    IF CharCode[a] >= CharCode["0"] /\ CharCode[a] <= CharCode["9"]
    THEN CharCode[a] - CharCode["0"]
    ELSE (CharCode[a] - CharCode["a"] + 10) % 256

HEXTOBIN(a) ==
    IF CharCode[a] >= CharCode["0"] /\ CharCode[a] <= CharCode["9"]
    THEN CharCode[a] - CharCode["0"]
    ELSE IF CharCode[a] >= CharCode["A"] /\ CharCode[a] <= CharCode["F"]
    THEN CharCode[a] - CharCode["A"] + 10
    ELSE CharCode[a] - CharCode["a"] + 10

\* for( p = line; *p && *p != ':'; p++ ) if( !isxdigit(*p) ) break;
\* the index at which the loop stops (Len + 1 at the end of the line)
RECURSIVE HexEnd(_, _)
HexEnd(line, i) ==
    IF i > Len(line) THEN i
    ELSE IF line[i] = ":" THEN i
    ELSE IF ~isxdigit(line[i]) THEN i
    ELSE HexEnd(line, i + 1)

\* sscanf( p, ":%u:", &otrust ): the number of decimal digits from index i
\* on, and their value
RECURSIVE DecEnd(_, _)
DecEnd(line, i) ==
    IF i > Len(line) THEN i
    ELSE IF CharCode[line[i]] >= CharCode["0"] /\ CharCode[line[i]] <= CharCode["9"]
    THEN DecEnd(line, i + 1)
    ELSE i

RECURSIVE DecValue(_, _, _)
DecValue(line, i, j) ==
    IF j < i THEN 0
    ELSE DecValue(line, i, j - 1) * 10 + (CharCode[line[j]] - CharCode["0"])

\* line[fprlen++] = HEXTOBIN(p[0]) * 16 + HEXTOBIN(p[1]), a char taken as
\* a byte
BinOfHex(line, n) ==
    [i \in 1..(n \div 2) |->
        (HEXTOBIN(line[2 * i - 1]) * 16 + HEXTOBIN(line[2 * i])) % 256]

\* tdbio_search_dir_byfpr with the fingerprint given as bytes
SearchDirByBytes(db, bytes) ==
    LET hits == {n \in 1..Len(db) :
                    /\ db[n].rectype = RECTYPE_KEY
                    /\ db[n].fingerprint_len = Len(bytes)
                    /\ FprBytes(db[n].fingerprint, db[n].fingerprint_len) = bytes
                    /\ ReadOk(db, db[n].lid, RECTYPE_DIR)}
    IN  IF hits = {} THEN 0
        ELSE db[CHOOSE n \in hits : \A m \in hits : n <= m].lid

\* get_pubkey_byfprint: the key packets of the ring with these bytes as
\* fingerprint
PubkeysByBytes(kr, bytes) ==
    UNION {{kr[k][i] : i \in {j \in 1..Len(kr[k]) :
                /\ kr[k][j].pkttype \in {PKT_PUBLIC_KEY, PKT_PUBLIC_SUBKEY}
                /\ FprBytes(kr[k][j].fingerprint, kr[k][j].fingerprint_len) = bytes}} :
           k \in RingKeys(kr)}

\* the Dir record lid gets the ownertrust of the line
ImportSet(db, lid, otrust) ==
    UpdOutcome([db EXCEPT ![lid].ownertrust = otrust % 256], RC_OK, FALSE, lid)

\* after insert_trust_record returned ins: goto repeat
ImportInserted(ins, bytes, otrust) ==
    IF ins.died \/ ins.rc # RC_OK THEN ins
    ELSE IF SearchDirByBytes(ins.db, bytes) # 0
    THEN Logged(ImportSet(ins.db, SearchDirByBytes(ins.db, bytes), otrust),
                ins.log \o <<"write">>, <<>>)
    ELSE ins

\* one line of the file in import_ownertrust; o is the outcome so far
ImportLine(o, kr, line, io) ==
    LET n == Len(line)
        p == HexEnd(line, 1)
        fprlen == p - 1
        q == DecEnd(line, p + 1)
        otrust == DecValue(line, p + 1, q - 1)
        bytes == BinOfHex(line, fprlen)
        found == SearchDirByBytes(o.db, bytes)
        pks == PubkeysByBytes(kr, bytes)
    IN  IF o.died THEN o
        ELSE IF line = <<>> \/ line[1] = "#" THEN o
        ELSE IF line[n] # "\n" THEN o
        ELSE IF p > n \/ line[p] # ":" THEN o
        ELSE IF fprlen # 32 /\ fprlen # 40 THEN o
        ELSE IF q = p + 1 THEN o
        ELSE IF otrust = 0 THEN o
        ELSE IF found # 0
        THEN Logged(ImportSet(o.db, found, otrust), o.log \o <<"write">>, <<>>)
        ELSE IF pks = {} THEN o
        ELSE Logged(ImportInserted(
                        insert_trust_record(o.db, kr,
                            (CHOOSE pk \in pks : TRUE)
                               @@ [timestamp |-> 0, expiredate |-> 0,
                                   local_id |-> 0],
                            io),
                        bytes, otrust),
                    o.log, <<>>)

\* import_ownertrust( fname ): the lines of the file one after the other
RECURSIVE ImportLines(_, _, _, _)
ImportLines(o, kr, lines, io) ==
    IF lines = <<>> THEN o
    ELSE ImportLines(ImportLine(o, kr, Head(lines), io), kr, Tail(lines), io)

\* do_sync at the end of import_ownertrust
ImportSynced(o) == IF o.died THEN o ELSE Logged(o, <<>>, <<"sync">>)

import_ownertrust(db, kr, lines, io) ==
    ImportSynced(ImportLines(UpdOutcome(db, RC_OK, FALSE, 0), kr, lines, io))

-----------------------------------------------------------------------------
(* check_trust, query_trust_info.                                          *)

\* make_timestamp(): the current time
Now == 2

\* *r_trustlevel was not written
NO_LEVEL == 99

\* what check_trust did: the database, the return code, *r_trustlevel,
\* died, pk->local_id, whether do_check was called, and whether it had the
\* Dir record of pk in rec (found, or read after the insertion)
CtOutcome(db, rc, level, died, lid, called, rec_read) ==
    [db |-> db, rc |-> rc, trustlevel |-> level, died |-> died,
     local_id |-> lid, do_check_called |-> called, rec_read |-> rec_read]

\* pk->expiredate && pk->expiredate <= cur_time
IsExpired(pk) == pk.expiredate # 0 /\ pk.expiredate <= Now

\* a change of check_trust_rec: the expiry is looked at before the timestamp
check_trust_rec_expiry_first(db, pk, lid) ==
    LET rec == db[lid]
        chk == do_check(db, rec)
    IN  IF IsExpired(pk)
        THEN CtOutcome(db, RC_OK, TRUST_EXPIRED, FALSE, lid, FALSE, TRUE)
        ELSE IF pk.timestamp > Now
        THEN CtOutcome(db, G10ERR_TIME_CONFLICT, NO_LEVEL, FALSE, lid, FALSE, TRUE)
        ELSE IF chk.died THEN CtOutcome(db, RC_OK, NO_LEVEL, TRUE, lid, TRUE, TRUE)
        ELSE IF chk.rc # RC_OK THEN CtOutcome(db, chk.rc, NO_LEVEL, FALSE, lid, TRUE, TRUE)
        ELSE CtOutcome(db, RC_OK, chk.trustlevel, FALSE, lid, TRUE, TRUE)

\* the part of check_trust after the Dir record rec (number lid) was read
check_trust_rec(db, pk, lid) ==
    LET rec == db[lid]
        chk == do_check(db, rec)
    IN  IF pk.timestamp > Now
        THEN CtOutcome(db, G10ERR_TIME_CONFLICT, NO_LEVEL, FALSE, lid, FALSE, TRUE)
        ELSE IF IsExpired(pk)
        THEN CtOutcome(db, RC_OK, TRUST_EXPIRED, FALSE, lid, FALSE, TRUE)
        ELSE IF chk.died THEN CtOutcome(db, RC_OK, NO_LEVEL, TRUE, lid, TRUE, TRUE)
        ELSE IF chk.rc # RC_OK THEN CtOutcome(db, chk.rc, NO_LEVEL, FALSE, lid, TRUE, TRUE)
        ELSE CtOutcome(db, RC_OK, chk.trustlevel, FALSE, lid, TRUE, TRUE)

\* check_trust after insert_trust_record returned ins
CheckTrustInserted(ins, pk) ==
    IF ins.died
    THEN CtOutcome(ins.db, RC_OK, NO_LEVEL, TRUE, ins.local_id, FALSE, FALSE)
    ELSE IF ins.rc # RC_OK
    THEN \* goto leave: the level is TRUST_UNKNOWN and 0 is returned
         CtOutcome(ins.db, RC_OK, TRUST_UNKNOWN, FALSE, ins.local_id, FALSE, FALSE)
    ELSE IF ~ReadOk(ins.db, ins.local_id, RECTYPE_DIR)
    THEN CtOutcome(ins.db, RC_OK, NO_LEVEL, TRUE, ins.local_id, FALSE, FALSE)
    ELSE check_trust_rec(ins.db, pk, ins.local_id)

\* check_trust( pk, &trustlevel ); pk carries timestamp, expiredate, local_id
check_trust(db, kr, pk, io) ==
    LET found == tdbio_search_dir_bypk(db, pk)
    IN  IF pk.local_id # 0
        THEN IF ~ReadOk(db, pk.local_id, RECTYPE_DIR)
             THEN CtOutcome(db, RC_OK, NO_LEVEL, TRUE, pk.local_id, FALSE, FALSE)
             ELSE check_trust_rec(db, pk, pk.local_id)
        ELSE IF found # 0 THEN check_trust_rec(db, pk, found)
        ELSE CheckTrustInserted(insert_trust_record(db, kr, pk, io), pk)

\* query_trust_info: the letter for the outcome of check_trust
query_trust_info(o) ==
    IF o.rc # RC_OK THEN "?"
    ELSE IF o.trustlevel >= TRUST_FLAG_REVOKED THEN "r"
    ELSE IF TrustMask(o.trustlevel) = TRUST_UNKNOWN THEN "o"
    ELSE IF TrustMask(o.trustlevel) = TRUST_EXPIRED THEN "e"
    ELSE IF TrustMask(o.trustlevel) = TRUST_UNDEFINED THEN "q"
    ELSE IF TrustMask(o.trustlevel) = TRUST_NEVER THEN "n"
    ELSE IF TrustMask(o.trustlevel) = TRUST_MARGINAL THEN "m"
    ELSE IF TrustMask(o.trustlevel) = TRUST_FULLY THEN "f"
    ELSE IF TrustMask(o.trustlevel) = TRUST_ULTIMATE THEN "u"
    ELSE "BUG"

-----------------------------------------------------------------------------
(* The world of the model: a few keys, the keyblocks they may have in the  *)
(* public keyring, and the calls a user of trustdb.c makes.                *)

NKeys == 2
Keys == 1..NKeys

\* the store is kept within this many records, a run within this many calls
MaxRecnum == 14
MaxCalls == 5

\* the public key packet of key k and of its subkey j
PrimaryOf(k) == PubKey(k, 1, 20, 10 * k)
SubkeyOf(k, j) == SubKey(100 + 10 * k + j, 1, 20, 10 * k + j)

\* a self-signature of k (class 0x13) with preferences, a key binding
\* signature (class 0x18), a certification by s (class 0x10)
SelfSigOf(k, prefs) == Signature(k, 1, 19, TRUE, prefs)
BindingSigOf(k) == Signature(k, 1, 24, TRUE, <<>>)
CertBy(s, good) == Signature(s, 1, 16, good, <<>>)

\* the packets of the user ids: each name with its self-signature and,
\* when s # 0, a certification by s
RECURSIVE UidPackets(_, _, _, _, _)
UidPackets(k, uids, prefs, s, good) ==
    IF uids = <<>> THEN <<>>
    ELSE <<UserId(Head(uids)), SelfSigOf(k, prefs)>>
         \o (IF s # 0 THEN <<CertBy(s, good)>> ELSE <<>>)
         \o UidPackets(k, Tail(uids), prefs, s, good)

\* a keyblock: primary key, subkeys (with a binding signature), user ids
Keyblock(k, subs, uids, prefs, s, good) ==
    <<PrimaryOf(k)>>
    \o [i \in 1..Len(subs) |-> SubkeyOf(k, subs[i])]
    \o (IF subs # <<>> THEN <<BindingSigOf(k)>> ELSE <<>>)
    \o UidPackets(k, uids, prefs, s, good)

\* the keyblocks key k may have in the ring: for key 1 all subkeys and user
\* ids, then some of them missing, then user ids certified by key 2 (well
\* or badly) or by a key that is never in the ring; for the others a user
\* id that is certified by key 1 or not
Variants(k) ==
    IF k = 1
    THEN {Keyblock(1, <<1, 2, 3>>, <<1, 2, 3>>, <<>>, 0, TRUE),
          Keyblock(1, <<2>>, <<2>>, <<>>, 0, TRUE),
          Keyblock(1, <<1, 3>>, <<1, 3>>, <<>>, 0, TRUE),
          Keyblock(1, <<3>>, <<3>>, <<7, 8>>, 0, TRUE),
          Keyblock(1, <<>>, <<1>>, <<7>>, 2, TRUE),
          Keyblock(1, <<>>, <<1, 2>>, <<>>, 2, TRUE),
          Keyblock(1, <<>>, <<1, 1>>, <<>>, 2, FALSE),
          Keyblock(1, <<>>, <<1>>, <<>>, NKeys + 1, TRUE)}
    ELSE {Keyblock(k, <<>>, <<1>>, <<>>, 0, TRUE),
          Keyblock(k, <<>>, <<1>>, <<>>, 1, TRUE)}

\* a public key as a caller passes it: the packet with its timestamp,
\* its expiredate and the cached local_id
PkArg(key, ts, exp, lid) ==
    [keyid |-> key.keyid, pubkey_algo |-> key.pubkey_algo,
     fingerprint_len |-> key.fingerprint_len, fingerprint |-> key.fingerprint,
     timestamp |-> ts, expiredate |-> exp, local_id |-> lid]

\* the public keys a caller may pass: a primary key or its first subkey
CallerKeys == {PrimaryOf(k) : k \in Keys} \cup {SubkeyOf(1, 1)}
Timestamps == {Now - 1, Now + 1}
Expiredates == {0, Now, Now + 1}
\* the times of the keys of the ring: a key in force, an expired key, a key
\* from the future that is expired
CallTimes == {<<Now - 1, 0>>, <<Now - 1, Now>>, <<Now + 1, Now>>}
IoChoices == {IO_OK, IO_BEGIN_FAILS, IO_END_FAILS}
Ownertrusts == {TRUST_FULLY}

\* what the last call was and what it returned
Res(op, pk, rc, level, died, lid, called) ==
    [op |-> op, pk |-> pk, rc |-> rc, trustlevel |-> level, died |-> died,
     local_id |-> lid, do_check_called |-> called]
NoPk == PkArg(PrimaryOf(0), 0, 0, 0)
NoRes == Res("none", NoPk, RC_OK, NO_LEVEL, FALSE, 0, FALSE)

\* a change of OwnKeyInserted: the key goes into ultikey_table whatever
\* insert_trust_record returned
OwnKeyInsertedAlways(X, ins) ==
    IF ins.died THEN [X EXCEPT !.db = ins.db, !.died = TRUE]
    ELSE [X EXCEPT !.db = ins.db, !.tbl = @ \cup {ins.local_id}]

\* verify_own_keys after insert_trust_record returned ins for a key: X
\* holds db, died and tbl (ultikey_table)
OwnKeyInserted(X, ins) ==
    IF ins.died THEN [X EXCEPT !.db = ins.db, !.died = TRUE]
    ELSE IF ins.rc # RC_OK THEN [X EXCEPT !.db = ins.db]
    ELSE [X EXCEPT !.db = ins.db, !.tbl = @ \cup {ins.local_id}]

\* one secret key in verify_own_keys: k is skipped if get_pubkey fails or
\* if cmp_public_secret_key finds that the keys do not match; found is the
\* result of query_trust_record
OwnKey(X, kr, k, matches, found, io) ==
    IF ~get_pubkey_ok(kr, k) THEN X
    ELSE IF ~matches THEN X
    ELSE IF found # 0 THEN [X EXCEPT !.tbl = @ \cup {found}]
    ELSE OwnKeyInserted(X,
           insert_trust_record(X.db, kr, PkArg(PrimaryOf(k), 0, 0, 0), io))

\* the least of a set of keys
FirstOf(secret) == CHOOSE x \in secret : \A y \in secret : x <= y

\* verify_own_keys: every secret key (enum_secret_keys gives the keys of
\* secret; those of matching have the same key material as the public key)
\* whose public key is in the ring is put into the trustdb if it is not
\* there, and into ultikey_table
RECURSIVE verify_own_keys(_, _, _, _, _)
verify_own_keys(X, kr, secret, matching, io) ==
    IF X.died \/ secret = {} THEN X
    ELSE verify_own_keys(
           OwnKey(X, kr, FirstOf(secret), FirstOf(secret) \in matching,
                  tdbio_search_dir_bypk(X.db,
                      PkArg(PrimaryOf(FirstOf(secret)), 0, 0, 0)),
                  io),
           kr, secret \ {FirstOf(secret)}, matching, io)

-----------------------------------------------------------------------------
(* The actions.                                                            *)

\* one more call
Budget == calls < MaxCalls /\ calls' = calls + 1

\* the keyring changes: a key is imported, edited or removed
EditKeyring(k, kb) ==
    /\ Budget
    /\ ~exited
    /\ keyring[k] # kb
    /\ keyring' = [keyring EXCEPT ![k] = kb]
    /\ res' = Res("edit", NoPk, RC_OK, NO_LEVEL, FALSE, 0, FALSE)
    /\ UNCHANGED <<tdb, ultikey_table, opt, exited, stack, wstate>>

\* a call that returned o takes effect: the database, the exit of the
\* process, and what the caller sees
Returns(op, pk, o, level, called) ==
    /\ Budget
    /\ Len(o.db) <= MaxRecnum
    /\ tdb' = o.db
    /\ exited' = o.died
    /\ res' = Res(op, pk, o.rc, level, o.died, o.local_id, called)
                @@ [log |-> o.log, modified |-> o.modified]
    /\ UNCHANGED <<opt, keyring, stack, wstate>>

\* a new process: init_trustdb( 1, NULL ) with these secret keys, of which
\* those of matching have a public key of the same material
InitDone(o, secret, matching) ==
    /\ Budget
    /\ Len(o.db) <= MaxRecnum
    /\ tdb' = o.db
    /\ exited' = o.died
    /\ ultikey_table' = o.tbl
    /\ res' = Res("init", NoPk, RC_OK, NO_LEVEL, o.died, 0, FALSE)
                @@ [secret |-> secret, matching |-> matching]
    /\ UNCHANGED <<opt, keyring, stack, wstate>>

InitTrustdb(secret, matching, io) ==
    InitDone(verify_own_keys([db |-> tdb, died |-> FALSE, tbl |-> {}],
                             keyring, secret, matching, io),
             secret, matching)

CheckTrustDone(pk, o) ==
    /\ ~exited
    /\ Budget
    /\ Len(o.db) <= MaxRecnum
    /\ tdb' = o.db
    /\ exited' = o.died
    /\ res' = Res("check_trust", pk, o.rc, o.trustlevel, o.died,
                  o.local_id, o.do_check_called)
                @@ [rec_read |-> o.rec_read]
    /\ UNCHANGED <<ultikey_table, opt, keyring, stack, wstate>>

CheckTrust(key, ts, exp, io) ==
    CheckTrustDone(PkArg(key, ts, exp, 0),
                   check_trust(tdb, keyring, PkArg(key, ts, exp, 0), io))

\* insert_trust_record is called for keys that have no Dir record
InsertTrustRecord(key, io) ==
    /\ ~exited
    /\ tdbio_search_dir_bypk(tdb, PkArg(key, 0, 0, 0)) = 0
    /\ Returns("insert_trust_record", PkArg(key, 0, 0, 0),
               insert_trust_record(tdb, keyring, PkArg(key, 0, 0, 0), io),
               NO_LEVEL, FALSE)
    /\ UNCHANGED ultikey_table

\* update_trust_record on the keyblock of key k of the ring
UpdateTrustRecord(k, io) ==
    /\ ~exited
    /\ keyring[k] # NoKeyblock
    /\ Returns("update_trust_record", PkArg(PrimaryOf(k), 0, 0, 0),
               update_trust_record(tdb, keyring, keyring[k], 0, io),
               NO_LEVEL, FALSE)
    /\ UNCHANGED ultikey_table

UpdateOwnertrust(lid, new_trust) ==
    /\ ~exited
    /\ ReadOk(tdb, lid, RECTYPE_DIR)
    /\ Returns("update_ownertrust", NoPk,
               update_ownertrust(tdb, lid, new_trust), NO_LEVEL, FALSE)
    /\ UNCHANGED ultikey_table

\* an empty trust database, an empty keyring, the default quorum
Init ==
    /\ tdb = <<>>
    /\ ultikey_table = {}
    /\ opt = [completes_needed |-> 1, marginals_needed |-> 3]
    /\ keyring = [k \in Keys |-> NoKeyblock]
    /\ exited = FALSE
    /\ res = NoRes
    /\ calls = 0
    /\ stack = <<>>
    /\ wstate = "idle"

Next ==
    \/ \E k \in Keys : \E kb \in Variants(k) \cup {NoKeyblock} : EditKeyring(k, kb)
    \/ \E secret \in SUBSET Keys : \E matching \in SUBSET secret :
          \E io \in IoChoices : InitTrustdb(secret, matching, io)
    \/ \E key \in CallerKeys : \E t \in CallTimes : \E io \in IoChoices :
          CheckTrust(key, t[1], t[2], io)
    \/ \E key \in CallerKeys : \E io \in IoChoices : InsertTrustRecord(key, io)
    \/ \E k \in Keys : \E io \in IoChoices : UpdateTrustRecord(k, io)
    \/ \E lid \in 1..Len(tdb) : \E t \in Ownertrusts : UpdateOwnertrust(lid, t)

Spec == Init /\ [][Next]_vars

-----------------------------------------------------------------------------
(* The evaluator on the stores of a small web of trust.  Key k has the Dir *)
(* record DirNo(k), followed by its Key record, its Uid record and the Sig *)
(* record of the user id.  Key 1 is K, key 2 is A, the last key is B; one  *)
(* more key is in the ring without records, another one is in no ring.     *)

EvalKeys == 1..(NKeys + 1)
EvalSubject == NKeys + 1
KeyNotInTrustdb == NKeys + 2
KeyNotInRing == NKeys + 3

DirNo(k) == 4 * k - 3

\* the four records of key k; a key of nouid has lost its user id: its Uid
\* and Sig records are deleted
EvalRecords(k, ownertrust, dirflags, slots, nouid) ==
    IF k \in nouid
    THEN <<DirRec(DirNo(k), DirNo(k) + 1, 0, ownertrust, dirflags),
           KeyRec(DirNo(k), 0, 1, 20, PrimaryOf(k).fingerprint),
           FreeRec, FreeRec>>
    ELSE <<DirRec(DirNo(k), DirNo(k) + 1, DirNo(k) + 2, ownertrust, dirflags),
           KeyRec(DirNo(k), 0, 1, 20, PrimaryOf(k).fingerprint),
           UidRec(DirNo(k), 0, 0, DirNo(k) + 3, {UIDF_CHECKED, UIDF_VALID},
                  rmd160_hash_buffer(1)),
           SigRec(DirNo(k), 0, slots)>>

RECURSIVE EvalStore(_, _, _, _, _)
EvalStore(k, ownertrust, dirflags, slots, nouid) ==
    IF k \notin EvalKeys THEN <<>>
    ELSE EvalRecords(k, ownertrust[k], dirflags[k], slots[k], nouid)
         \o EvalStore(k + 1, ownertrust, dirflags, slots, nouid)

\* who may have certified key k in its first slot: K only by B, A by
\* everybody (A included), the others by K or A
FirstSigners(k) ==
    IF k = 1 THEN {0, EvalSubject}
    ELSE IF k = 2 THEN {0} \cup EvalKeys
    ELSE {0, 1, 2}

\* the flags of the second slot of B, a signature by K
FlagChoices ==
    {{SIGF_CHECKED, SIGF_VALID}, {SIGF_CHECKED},
     {SIGF_CHECKED, SIGF_VALID, SIGF_EXPIRED},
     {SIGF_CHECKED, SIGF_VALID, SIGF_REVOKED}, {SIGF_NOPUBKEY}}
SecondSlots == {FreeSlot} \cup {SigSlot(DirNo(1), f) : f \in FlagChoices}

\* the slots of key k: signer is who signed its first slot, second is the
\* second slot of B
EvalSlots(k, signer, second) ==
    [i \in 1..SIGS_PER_RECORD |->
        IF i = 1
        THEN IF signer = 0 THEN FreeSlot
             ELSE SigSlot(DirNo(signer), {SIGF_CHECKED, SIGF_VALID})
        ELSE IF i = 2 /\ k = EvalSubject THEN second
        ELSE FreeSlot]

\* the ring of these stores: every key with one user id; KeyNotInRing is
\* not in it
EvalRing ==
    [k \in 1..KeyNotInTrustdb |-> Keyblock(k, <<>>, <<1>>, <<>>, 0, TRUE)]

EvalInit ==
    \E signer \in [EvalKeys -> {0} \cup EvalKeys] :
    \E second \in SecondSlots :
    \E otK \in {TRUST_UNKNOWN, TRUST_MARGINAL, TRUST_FULLY, TRUST_ULTIMATE} :
    \E otA \in {TRUST_UNKNOWN, TRUST_FULLY} :
    \E revoked \in BOOLEAN :
    \E ulti \in {{}, {DirNo(1)}} :
    \E quorum \in {<<1, 3>>, <<2, 2>>} :
    \E nouid \in {{}, {2}} :
        /\ \A k \in EvalKeys : signer[k] \in FirstSigners(k)
        /\ \A k \in nouid : signer[k] = 0
        /\ tdb = EvalStore(1,
                    [k \in EvalKeys |-> IF k = 1 THEN otK
                                        ELSE IF k = 2 THEN otA ELSE TRUST_UNKNOWN],
                    [k \in EvalKeys |-> IF revoked /\ k = EvalSubject
                                        THEN {DIRF_REVOKED} ELSE {}],
                    [k \in EvalKeys |-> EvalSlots(k, signer[k], second)],
                    nouid)
        /\ ultikey_table = ulti
        /\ opt = [completes_needed |-> quorum[1], marginals_needed |-> quorum[2]]
        /\ keyring = EvalRing
        /\ exited = FALSE
        /\ res = NoRes
        /\ calls = MaxCalls - 1
        /\ stack = <<>>
        /\ wstate = "idle"

\* the pairs depth, max_depth verify_key is applied to
DepthPairs == {<<1, 5>>, <<4, 5>>, <<5, 5>>, <<0, 0>>}

\* verify_key( depth, max_depth, &drec ) on the Dir record lid
VerifyKey(depth, max_depth, lid) ==
    LET r == verify_key(tdb, depth, max_depth, tdb[lid])
    IN  /\ Budget
        /\ ~exited
        /\ ReadOk(tdb, lid, RECTYPE_DIR)
        /\ exited' = r.died
        /\ res' = Res("verify_key", NoPk, RC_OK, r.trust, r.died, lid, FALSE)
                    @@ [depth |-> depth, max_depth |-> max_depth]
        /\ UNCHANGED <<tdb, ultikey_table, opt, keyring, stack, wstate>>

EvalCallers == {PrimaryOf(k) : k \in {2, EvalSubject, KeyNotInTrustdb, KeyNotInRing}}

EvalNext ==
    \/ \E key \in EvalCallers : \E ts \in Timestamps : \E exp \in Expiredates :
          \E io \in IoChoices : CheckTrust(key, ts, exp, io)
    \/ \E p \in DepthPairs : \E k \in {1, EvalSubject} : VerifyKey(p[1], p[2], DirNo(k))

SpecEval == EvalInit /\ [][EvalNext]_vars

\* ---------------------------------------------------------------------
\* verify_key step by step (SpecWalk): the call stack of the recursion
\* ---------------------------------------------------------------------

\* one activation of verify_key: its arguments, its position and its locals
Frame(lid, depth, max_depth) ==
    [lid |-> lid, depth |-> depth, max_depth |-> max_depth, phase |-> "enter",
     uidrn |-> 0, sigrn |-> 0, i |-> 1, marginal |-> 0, fully |-> 0,
     trust |-> TRUST_UNKNOWN]

Top == stack[Len(stack)]
SetTop(f) == [stack EXCEPT ![Len(stack)] = f]
Running(phase) == wstate = "run" /\ stack # <<>> /\ Top.phase = phase

\* return t from the activation f
WalkReturns(f, t) == [f EXCEPT !.phase = "ret", !.trust = t]

\* die_invalid_db() inside the walk
WalkDies == wstate' = "died" /\ exited' = TRUE /\ stack' = <<>>

\* the walk goes on with the stack st
WalkOn(st) == stack' = st /\ UNCHANGED <<wstate, exited>>

\* the caller's continuation after verify_key( depth+1, max_depth, &tmp )
\* returned r into the activation f waiting at its slot i
AfterCall(f, r) ==
    LET s == tdb[f.sigrn].sig[f.i]
        ot == SignerOwnertrust(tdb[s.lid])
        nt == TrustMask(r)
        fully2 == IF nt >= TRUST_FULLY THEN f.fully + 1 ELSE f.fully
        marginal2 == IF nt >= TRUST_MARGINAL THEN f.marginal + 1 ELSE f.marginal
    IN  IF nt < TRUST_MARGINAL
        THEN [f EXCEPT !.phase = "slot", !.i = f.i + 1]
        ELSE IF nt = TRUST_ULTIMATE THEN WalkReturns(f, ot)
        ELSE IF QuorumReached(fully2, marginal2) THEN WalkReturns(f, TRUST_FULLY)
        ELSE [f EXCEPT !.phase = "slot", !.i = f.i + 1,
                       !.marginal = marginal2, !.fully = fully2]

\* do_check calls verify_key( 1, 5, dr )
WalkStart(lid) ==
    /\ Budget
    /\ ~exited
    /\ wstate = "idle"
    /\ ReadOk(tdb, lid, RECTYPE_DIR)
    /\ stack' = <<Frame(lid, 1, 5)>>
    /\ wstate' = "run"
    /\ res' = Res("do_check", NoPk, RC_OK, NO_LEVEL, FALSE, lid, TRUE)
    /\ UNCHANGED <<tdb, ultikey_table, opt, keyring, exited>>

\* the two tests at the head of verify_key
WalkEnter ==
    /\ Running("enter")
    /\ WalkOn(SetTop(
          IF TooDeep(Top.depth, Top.max_depth)
          THEN WalkReturns(Top, TRUST_UNDEFINED)
          ELSE IF qry_lid_table_flag(ultikey_table, Top.lid)
          THEN WalkReturns(Top, TRUST_ULTIMATE)
          ELSE [Top EXCEPT !.phase = "uid", !.uidrn = tdb[Top.lid].uidlist]))
    /\ UNCHANGED <<tdb, ultikey_table, opt, keyring, res, calls>>

\* the head of the loop over the Uid records
WalkUid ==
    /\ Running("uid")
    /\ IF Top.uidrn = 0
       THEN WalkOn(SetTop(WalkReturns(Top, VkFinal(Top.marginal))))
       ELSE IF ~ReadOk(tdb, Top.uidrn, RECTYPE_UID) THEN WalkDies
       ELSE WalkOn(SetTop([Top EXCEPT !.phase = "sig",
                                      !.sigrn = tdb[Top.uidrn].siglist,
                                      !.uidrn = tdb[Top.uidrn].next]))
    /\ UNCHANGED <<tdb, ultikey_table, opt, keyring, res, calls>>

\* the head of the loop over the Sig records of a user id
WalkSig ==
    /\ Running("sig")
    /\ IF Top.sigrn = 0
       THEN WalkOn(SetTop([Top EXCEPT !.phase = "uid"]))
       ELSE IF ~ReadOk(tdb, Top.sigrn, RECTYPE_SIG) THEN WalkDies
       ELSE WalkOn(SetTop([Top EXCEPT !.phase = "slot", !.i = 1]))
    /\ UNCHANGED <<tdb, ultikey_table, opt, keyring, res, calls>>

\* one turn of the loop over the slots: skip the slot or call verify_key
\* for the signer
WalkSlot ==
    /\ Running("slot")
    /\ IF Top.i > SIGS_PER_RECORD
       THEN WalkOn(SetTop([Top EXCEPT !.phase = "sig",
                                      !.sigrn = tdb[Top.sigrn].next]))
       ELSE IF ~SlotCounts(tdb[Top.sigrn].sig[Top.i])
       THEN WalkOn(SetTop([Top EXCEPT !.i = Top.i + 1]))
       ELSE IF ~ReadOk(tdb, tdb[Top.sigrn].sig[Top.i].lid, RECTYPE_DIR)
       THEN WalkDies
       ELSE WalkOn(Append(SetTop([Top EXCEPT !.phase = "wait"]),
                          Frame(tdb[Top.sigrn].sig[Top.i].lid, Top.depth + 1,
                                Top.max_depth)))
    /\ UNCHANGED <<tdb, ultikey_table, opt, keyring, res, calls>>

\* return from an activation: into the caller's loop, or to do_check
WalkReturn ==
    /\ Running("ret")
    /\ IF Len(stack) = 1
       THEN /\ stack' = <<>>
            /\ wstate' = "done"
            /\ res' = [res EXCEPT !.trustlevel = Top.trust]
       ELSE /\ stack' = Append(SubSeq(stack, 1, Len(stack) - 2),
                               AfterCall(stack[Len(stack) - 1], Top.trust))
            /\ UNCHANGED <<wstate, res>>
    /\ UNCHANGED <<tdb, ultikey_table, opt, keyring, exited, calls>>

\* the stores of the walk: every key certified by at most one other key in
\* its first slot, B possibly by K in its second
WalkInit ==
    \E signer \in [EvalKeys -> {0} \cup EvalKeys] :
    \E second \in {FreeSlot, SigSlot(DirNo(1), {SIGF_CHECKED, SIGF_VALID}),
                   SigSlot(DirNo(2), {SIGF_CHECKED, SIGF_VALID})} :
    \E otK \in {TRUST_UNKNOWN, TRUST_FULLY} :
    \E ulti \in {{}, {DirNo(1)}} :
    \E quorum \in {<<1, 3>>, <<2, 2>>} :
        /\ \A k \in EvalKeys : signer[k] \in FirstSigners(k)
        /\ tdb = EvalStore(1,
                    [k \in EvalKeys |-> IF k = 1 THEN otK ELSE TRUST_UNKNOWN],
                    [k \in EvalKeys |-> {}],
                    [k \in EvalKeys |-> EvalSlots(k, signer[k], second)],
                    {})
        /\ ultikey_table = ulti
        /\ opt = [completes_needed |-> quorum[1], marginals_needed |-> quorum[2]]
        /\ keyring = EvalRing
        /\ exited = FALSE
        /\ res = NoRes
        /\ calls = MaxCalls - 1
        /\ stack = <<>>
        /\ wstate = "idle"

WalkStep == WalkEnter \/ WalkUid \/ WalkSig \/ WalkSlot \/ WalkReturn

WalkNext ==
    \/ \E k \in EvalKeys : WalkStart(DirNo(k))
    \/ WalkEnter
    \/ WalkUid
    \/ WalkSig
    \/ WalkSlot
    \/ WalkReturn

\* once called, verify_key runs: no step of it waits for anything
SpecWalk == WalkInit /\ [][WalkNext]_vars /\ WF_vars(WalkStep)

\* ---------------------------------------------------------------------
\* The owner trust round trip (SpecTrip): export, wipe, import
\* ---------------------------------------------------------------------

\* the ownertrust bytes of the stores: none, the levels, a level with a
\* flag, the largest byte
OwnertrustBytes ==
    {0, TRUST_MARGINAL, TRUST_FULLY, TRUST_ULTIMATE,
     TRUST_FLAG_REVOKED + TRUST_FULLY, 255}

\* the store with the ownertrust of every Dir record cleared
Wiped(db) ==
    [n \in 1..Len(db) |->
        IF db[n].rectype = RECTYPE_DIR THEN [db[n] EXCEPT !.ownertrust = 0]
        ELSE db[n]]

\* the stores of SpecEval with an ownertrust for every key; key A may have a
\* Dir record without key list and may have DIRF_CHECKED set
TripInit ==
    \E ot \in [EvalKeys -> OwnertrustBytes] :
    \E nokey \in BOOLEAN :
    \E checked \in BOOLEAN :
        /\ tdb = [EvalStore(1, ot,
                             [k \in EvalKeys |-> IF checked /\ k = 2
                                                 THEN {DIRF_CHECKED} ELSE {}],
                             [k \in EvalKeys |-> EvalSlots(k, 0, FreeSlot)], {})
                      EXCEPT ![DirNo(2)].keylist = IF nokey THEN 0 ELSE @]
        /\ ultikey_table = {}
        /\ opt = [completes_needed |-> 1, marginals_needed |-> 3]
        /\ keyring = EvalRing
        /\ exited = FALSE
        /\ res = NoRes
        /\ calls = MaxCalls - 3
        /\ stack = <<>>
        /\ wstate = "idle"

\* export_ownertrust prints the text
ExportOwnertrust ==
    /\ Budget
    /\ ~exited
    /\ res.op = "none"
    /\ res' = [NoRes EXCEPT !.op = "export_ownertrust"]
                  @@ [text |-> export_ownertrust(tdb), before |-> tdb]
    /\ UNCHANGED <<tdb, ultikey_table, opt, keyring, exited, stack, wstate>>

\* the ownertrust of every Dir record is reset to 0; the records of the
\* last key may be missing in the store the text is imported to
WipeOwnertrust(drop) ==
    /\ Budget
    /\ ~exited
    /\ res.op = "export_ownertrust"
    /\ tdb' = IF drop THEN SubSeq(Wiped(tdb), 1, DirNo(EvalSubject) - 1)
                      ELSE Wiped(tdb)
    /\ res' = [res EXCEPT !.op = "wipe"] @@ [dropped |-> drop]
    /\ UNCHANGED <<ultikey_table, opt, keyring, exited, stack, wstate>>

\* import_ownertrust reads the text
ImportOwnertrust(io) ==
    LET o == import_ownertrust(tdb, keyring, res.text, io)
    IN  /\ Budget
        /\ ~exited
        /\ res.op = "wipe"
        /\ tdb' = o.db
        /\ exited' = o.died
        /\ res' = [res EXCEPT !.op = "import_ownertrust", !.died = o.died]
                    @@ [log |-> o.log]
        /\ UNCHANGED <<ultikey_table, opt, keyring, stack, wstate>>

\* clear_trust_checked_flag on a key of the ring, before the export
ClearTrustCheckedFlag(key) ==
    /\ ~exited
    /\ res.op = "none"
    /\ Returns("clear_trust_checked_flag", PkArg(key, 0, 0, 0),
               clear_trust_checked_flag(tdb, PkArg(key, 0, 0, 0)),
               NO_LEVEL, FALSE)
    /\ UNCHANGED ultikey_table

TripNext ==
    \/ \E key \in EvalCallers : ClearTrustCheckedFlag(key)
    \/ ExportOwnertrust
    \/ \E drop \in BOOLEAN : WipeOwnertrust(drop)
    \/ \E io \in IoChoices : ImportOwnertrust(io)

SpecTrip == TripInit /\ [][TripNext]_vars

-----------------------------------------------------------------------------
(* Keys with several user ids and several Sig records: a subject behind    *)
(* the keys of the web of trust, its signatures spread over two Uid        *)
(* records and three Sig records, evaluated and walked.                    *)

\* the signers are K (an own key) and the keys after it; the subject
\* follows them in the store
SigSigners == EvalKeys
SigSubject == NKeys + 2
SigDir == DirNo(SigSubject)

\* who may have certified signer k in its first slot: a key before it
SigFirst(k) == {0} \cup 1..(k - 1)

\* a slot of the subject: free, by K, by another signer, or by the second
\* key with a signature that did not verify
SubjectSlots ==
    {FreeSlot, SigSlot(DirNo(2), {SIGF_CHECKED})}
      \cup {SigSlot(DirNo(k), {SIGF_CHECKED, SIGF_VALID}) : k \in SigSigners}

\* the slots a and b in a Sig record, the rest free
TwoSlots(a, b) ==
    [i \in 1..SIGS_PER_RECORD |-> IF i = 1 THEN a ELSE IF i = 2 THEN b ELSE FreeSlot]

Layouts == {"chain", "empty_first", "free_record"}

\* the records of the subject: Dir, Key, two Uid, three Sig.  In "chain"
\* the first uid has two Sig records and the second none; in "empty_first"
\* the first uid has none and the second has two; in "free_record" the
\* second uid has a Sig record of free slots before the one with s[3], s[4]
SubjectRecords(layout, s) ==
    LET d == SigDir
        uid(next, siglist, name) ==
            UidRec(d, next, 0, siglist, {UIDF_CHECKED, UIDF_VALID},
                   rmd160_hash_buffer(name))
    IN  <<DirRec(d, d + 1, d + 2, TRUST_UNKNOWN, {}),
          KeyRec(d, 0, 1, 20, PrimaryOf(SigSubject).fingerprint)>>
        \o (IF layout = "chain"
            THEN <<uid(d + 3, d + 4, 1), uid(0, 0, 2),
                   SigRec(d, d + 5, TwoSlots(s[1], s[2])),
                   SigRec(d, 0, TwoSlots(s[3], s[4])), FreeRec>>
            ELSE IF layout = "empty_first"
            THEN <<uid(d + 3, 0, 1), uid(0, d + 4, 2),
                   SigRec(d, d + 5, TwoSlots(s[1], s[2])),
                   SigRec(d, 0, TwoSlots(s[3], s[4])), FreeRec>>
            ELSE <<uid(d + 3, d + 4, 1), uid(0, d + 5, 2),
                   SigRec(d, 0, TwoSlots(s[1], s[2])),
                   SigRec(d, d + 6, TwoSlots(FreeSlot, FreeSlot)),
                   SigRec(d, 0, TwoSlots(s[3], s[4]))>>)

SigInit ==
    \E signer \in [SigSigners -> {0} \cup SigSigners] :
    \E s \in [1..4 -> SubjectSlots] :
    \E layout \in Layouts :
    \E otK \in {TRUST_UNKNOWN, TRUST_FLAG_REVOKED + TRUST_MARGINAL, TRUST_FULLY,
                 TRUST_ULTIMATE} :
    \E otS \in {TRUST_UNKNOWN, TRUST_FULLY} :
    \E quorum \in {<<1, 3>>, <<2, 2>>} :
        /\ \A k \in SigSigners : signer[k] \in SigFirst(k)
        /\ tdb = EvalStore(1,
                    [k \in SigSigners |-> IF k = 1 THEN otK ELSE otS],
                    [k \in SigSigners |-> {}],
                    [k \in SigSigners |-> TwoSlots(
                        IF signer[k] = 0 THEN FreeSlot
                        ELSE SigSlot(DirNo(signer[k]), {SIGF_CHECKED, SIGF_VALID}),
                        FreeSlot)],
                    {})
                 \o SubjectRecords(layout, s)
        /\ ultikey_table = {DirNo(1)}
        /\ opt = [completes_needed |-> quorum[1], marginals_needed |-> quorum[2]]
        /\ keyring = EvalRing
        /\ exited = FALSE
        /\ res = NoRes
        /\ calls = MaxCalls - 1
        /\ stack = <<>>
        /\ wstate = "idle"

\* for(;;) { rc = walk_sigrecs( &sx ); if( rc ) break; ... } of
\* do_list_sigs: what the iterator returned, call after call
RECURSIVE WalkAll(_, _, _)
WalkAll(db, c, seen) ==
    LET r == walk_sigrecs(db, c)
    IN  IF r.died THEN [seq |-> seen, died |-> TRUE]
        ELSE IF r.rc # 0 THEN [seq |-> seen, died |-> FALSE]
        ELSE WalkAll(db, r.c, Append(seen, SigSlot(r.c.sig_lid, r.c.sig_flag)))

\* walk_sigrecs is called for the key lid until it returns eof
WalkSigrecs(lid) ==
    LET w == WalkAll(tdb, SigrecContext(lid), <<>>)
    IN  /\ Budget
        /\ ~exited
        /\ exited' = w.died
        /\ res' = Res("walk_sigrecs", NoPk, RC_OK, NO_LEVEL, w.died, lid, FALSE)
                    @@ [seq |-> w.seq]
        /\ UNCHANGED <<tdb, ultikey_table, opt, keyring, stack, wstate>>

SigNext ==
    \/ \E d \in {<<1, 5>>, <<0, 2>>} : VerifyKey(d[1], d[2], SigDir)
    \/ \E k \in {2, SigSubject} : WalkSigrecs(DirNo(k))

SpecSig == SigInit /\ [][SigNext]_vars

-----------------------------------------------------------------------------
(* Shadow dirs: create_shadow_dir is called for signers without a key, on  *)
(* behalf of the keys of a store, call after call.                         *)

\* the store before the first call: the keys of the web of trust, without
\* certifications
ShadowInit ==
    /\ tdb = EvalStore(1, [k \in EvalKeys |-> TRUST_UNKNOWN],
                       [k \in EvalKeys |-> {}],
                       [k \in EvalKeys |-> [i \in 1..SIGS_PER_RECORD |-> FreeSlot]],
                       {})
    /\ ultikey_table = {}
    /\ opt = [completes_needed |-> 1, marginals_needed |-> 3]
    /\ keyring = EvalRing
    /\ exited = FALSE
    /\ res = NoRes
    /\ calls = 0
    /\ stack = <<>>
    /\ wstate = "idle"

\* create_shadow_dir( sig, lid )
CreateShadowDir(sig, lid) ==
    LET r == create_shadow_dir(tdb, sig, lid)
    IN  /\ Budget
        /\ ~exited
        /\ tdb' = r.db
        /\ exited' = r.died
        /\ res' = Res("create_shadow_dir", NoPk, RC_OK, NO_LEVEL, r.died, lid, FALSE)
                    @@ [sig |-> sig, newlid |-> r.newlid, before |-> tdb]
        /\ UNCHANGED <<ultikey_table, opt, keyring, stack, wstate>>

ShadowNext ==
    \E keyid \in {KeyNotInTrustdb, KeyNotInRing} :
    \E algo \in {1, 2} :
    \E k \in EvalKeys :
        CreateShadowDir(Signature(keyid, algo, 16, TRUE, <<>>), DirNo(k))

SpecShadow == ShadowInit /\ [][ShadowNext]_vars

-----------------------------------------------------------------------------
(* Reconciliation of keys whose Dir record is marked as checked: the       *)
(* store holds the keys with one user id, the flag DIRF_CHECKED on some of *)
(* them, and the keyring has moved on.                                     *)

CheckedInit ==
    \E checked \in SUBSET Keys :
    \E kr \in [Keys -> UNION {Variants(k) : k \in Keys}] :
        /\ \A k \in Keys : kr[k] \in Variants(k)
        /\ tdb = EvalStore(1, [k \in EvalKeys |-> TRUST_UNKNOWN],
                           [k \in EvalKeys |-> IF k \in checked
                                               THEN {DIRF_CHECKED} ELSE {}],
                           [k \in EvalKeys |-> [i \in 1..SIGS_PER_RECORD |-> FreeSlot]],
                           {})
        /\ ultikey_table = {}
        /\ opt = [completes_needed |-> 1, marginals_needed |-> 3]
        /\ keyring = kr
        /\ exited = FALSE
        /\ res = NoRes
        /\ calls = MaxCalls - 2
        /\ stack = <<>>
        /\ wstate = "idle"

CheckedNext == \E k \in Keys : \E io \in IoChoices : UpdateTrustRecord(k, io)

SpecChecked == CheckedInit /\ [][CheckedNext]_vars

-----------------------------------------------------------------------------
(* Self-signatures: key 1 is in the store with its first user id, checked  *)
(* or not, with or without preferences; its keyblock has that user id and  *)
(* maybe a second one, each with one self-signature that verifies or not.  *)

\* the records of key 1: Dir, Key, Uid and the Pref record of the Uid
SelfStore(uidflags, oldprefs) ==
    <<DirRec(1, 2, 3, TRUST_UNKNOWN, {}),
      KeyRec(1, 0, 1, 20, PrimaryOf(1).fingerprint),
      UidRec(1, 0, IF oldprefs = <<>> THEN 0 ELSE 4, 0, uidflags,
             rmd160_hash_buffer(1))>>
    \o (IF oldprefs = <<>> THEN <<>> ELSE <<PrefRec(1, 0, oldprefs)>>)

\* a user id with one self-signature
SelfSigned(name, class, good, prefs) ==
    <<UserId(name), Signature(1, 1, class, good, prefs)>>

SelfInit ==
    \E uidflags \in {{}, {UIDF_CHECKED}, {UIDF_CHECKED, UIDF_VALID}} :
    \E oldprefs \in {<<>>, <<7>>} :
    \E class \in {16, 19} :
    \E good1, good2, second \in BOOLEAN :
    \E prefs1, prefs2 \in {<<>>, <<8, 9>>} :
        /\ tdb = SelfStore(uidflags, oldprefs)
        /\ ultikey_table = {}
        /\ opt = [completes_needed |-> 1, marginals_needed |-> 3]
        /\ keyring = [k \in Keys |->
                        IF k = 1
                        THEN <<PrimaryOf(1)>> \o SelfSigned(1, class, good1, prefs1)
                             \o (IF second THEN SelfSigned(2, 19, good2, prefs2)
                                 ELSE <<>>)
                        ELSE NoKeyblock]
        /\ exited = FALSE
        /\ res = NoRes
        /\ calls = MaxCalls - 1
        /\ stack = <<>>
        /\ wstate = "idle"

SelfNext == \E io \in IoChoices : UpdateTrustRecord(1, io)

SpecSelf == SelfInit /\ [][SelfNext]_vars

-----------------------------------------------------------------------------
(* update_trust_record on a Dir with two Uid records and their chains; the *)
(* keyblock keeps, strips or drops each user id.                           *)

\* the Dir of the signer, key 2, in the stores of this section
UidSignerDir == DirNo(3)

\* the store: Dir 1 of key 1 with the Uid records 3 (user id 1, Pref
\* record 5, Sig record 6) and 4 (user id 2; Pref record 7 and Sig record 8
\* where pref2, sig2 say so), and Dir 9 of key 2 with its Key, Uid and Sig
UidStore(pref2, sig2) ==
    <<DirRec(1, 2, 3, TRUST_UNKNOWN, {}),
      KeyRec(1, 0, 1, 20, PrimaryOf(1).fingerprint),
      UidRec(1, 4, 5, 6, {UIDF_CHECKED, UIDF_VALID}, rmd160_hash_buffer(1)),
      UidRec(1, 0, IF pref2 THEN 7 ELSE 0, IF sig2 THEN 8 ELSE 0,
             {UIDF_CHECKED, UIDF_VALID}, rmd160_hash_buffer(2)),
      PrefRec(1, 0, <<7>>),
      SigRec(1, 0, [i \in 1..SIGS_PER_RECORD |->
                      IF i = 1 THEN SigSlot(UidSignerDir, {SIGF_CHECKED, SIGF_VALID})
                      ELSE FreeSlot]),
      IF pref2 THEN PrefRec(1, 0, <<8>>) ELSE FreeRec,
      IF sig2
      THEN SigRec(1, 0, [i \in 1..SIGS_PER_RECORD |->
                      IF i = 1 THEN SigSlot(UidSignerDir, {SIGF_CHECKED, SIGF_VALID})
                      ELSE FreeSlot])
      ELSE FreeRec,
      DirRec(UidSignerDir, 10, 11, TRUST_FULLY, {}),
      KeyRec(UidSignerDir, 0, 1, 20, PrimaryOf(2).fingerprint),
      UidRec(UidSignerDir, 0, 0, 12, {UIDF_CHECKED, UIDF_VALID},
             rmd160_hash_buffer(2)),
      SigRec(UidSignerDir, 0, [i \in 1..SIGS_PER_RECORD |->
                      IF i = 1 THEN SigSlot(1, {SIGF_CHECKED, SIGF_VALID})
                      ELSE FreeSlot])>>

\* what the keyblock holds of a user id: nothing, the user id packet alone,
\* the user id with its self-signature, or with a certification by key 2
\* as well
UidShapes == {"absent", "bare", "selfsigned", "certified"}

UidShaped(name, shape) ==
    IF shape = "absent" THEN <<>>
    ELSE IF shape = "bare" THEN <<UserId(name)>>
    ELSE IF shape = "selfsigned" THEN <<UserId(name), SelfSigOf(1, <<>>)>>
    ELSE <<UserId(name), SelfSigOf(1, <<>>), CertBy(2, TRUE)>>

\* the signatures that may follow the primary key directly: none, a key
\* revocation (class 0x20) by the key itself, or a key binding (0x18), a
\* key revocation or a subkey revocation (0x28) by key 2
DirectSigs ==
    {<<>>, <<Signature(1, 1, 32, TRUE, <<>>)>>}
    \cup {<<Signature(2, 1, class, TRUE, <<>>)>> : class \in {24, 32, 40}}

UidInit ==
    \E pref2, sig2 \in BOOLEAN :
    \E direct \in DirectSigs :
    \E shape1, shape2 \in UidShapes :
    \E shape3 \in {"absent", "selfsigned"} :
        /\ tdb = UidStore(pref2, sig2)
        /\ ultikey_table = {}
        /\ opt = [completes_needed |-> 1, marginals_needed |-> 3]
        /\ keyring = [k \in Keys |->
                        IF k = 1
                        THEN <<PrimaryOf(1)>> \o direct \o UidShaped(1, shape1)
                             \o UidShaped(2, shape2) \o UidShaped(3, shape3)
                        ELSE IF k = 2
                        THEN Keyblock(2, <<>>, <<2>>, <<>>, 1, TRUE)
                        ELSE NoKeyblock]
        /\ exited = FALSE
        /\ res = NoRes
        /\ calls = MaxCalls - 1
        /\ stack = <<>>
        /\ wstate = "idle"

UidNext == \E io \in IoChoices : UpdateTrustRecord(1, io)

SpecUid == UidInit /\ [][UidNext]_vars

-----------------------------------------------------------------------------
(* The readers of a Sig chain on a store whose Sig record may name another *)
(* owner and whose Uid record may lack UIDF_VALID: verify_key,             *)
(* walk_sigrecs, update_trust_record and the hint list of                  *)
(* insert_trust_record.                                                    *)

\* the LID of the signer, key 2: its Dir, or its shadow dir
OwnerSigner == DirNo(2)

\* the store: Dir 1 of key 1 with Key 2, Uid 3 with uidflags and Sig 4,
\* whose lid is owner and whose first slot names the signer with flag; key
\* 2 as a Dir
\* with ownertrust ot and its Key, Uid and Sig (it is then one of the
\* user's own keys), or (shadow) as a shadow dir whose hint list names Dir 1
OwnerStore(owner, shadow, flag, ot, uidflags) ==
    <<DirRec(1, 2, 3, TRUST_UNKNOWN, {}),
      KeyRec(1, 0, 1, 20, PrimaryOf(1).fingerprint),
      UidRec(1, 0, 0, 4, uidflags, rmd160_hash_buffer(1)),
      SigRec(owner, 0, [i \in 1..SIGS_PER_RECORD |->
                          IF i = 1 THEN SigSlot(OwnerSigner, flag) ELSE FreeSlot])>>
    \o (IF shadow
        THEN <<SdirRec(OwnerSigner, PrimaryOf(2).keyid, 1, OwnerSigner + 1),
               HlstRec(0, [i \in 1..ITEMS_PER_HLST_RECORD |->
                              IF i = 1 THEN 1 ELSE 0])>>
        ELSE <<DirRec(OwnerSigner, OwnerSigner + 1, OwnerSigner + 2, ot, {}),
               KeyRec(OwnerSigner, 0, 1, 20, PrimaryOf(2).fingerprint),
               UidRec(OwnerSigner, 0, 0, OwnerSigner + 3,
                      {UIDF_CHECKED, UIDF_VALID}, rmd160_hash_buffer(1)),
               SigRec(OwnerSigner, 0, [i \in 1..SIGS_PER_RECORD |-> FreeSlot])>>)

OwnerInit ==
    \E owner \in {1, OwnerSigner} :
    \E shadow \in BOOLEAN :
    \E flag \in {{SIGF_CHECKED, SIGF_VALID}, {SIGF_CHECKED}, {SIGF_NOPUBKEY}} :
    \E ot \in {TRUST_UNKNOWN, TRUST_MARGINAL, TRUST_FULLY} :
    \E certified, good \in BOOLEAN :
    \E uidflags \in {{}, {UIDF_CHECKED}, {UIDF_CHECKED, UIDF_VALID}} :
        /\ shadow <=> flag = {SIGF_NOPUBKEY}
        /\ shadow => ot = TRUST_UNKNOWN
        /\ tdb = OwnerStore(owner, shadow, flag, ot, uidflags)
        /\ ultikey_table = IF shadow THEN {} ELSE {OwnerSigner}
        /\ opt = [completes_needed |-> 1, marginals_needed |-> 3]
        /\ keyring = [k \in Keys |->
                        IF k = 1
                        THEN Keyblock(1, <<>>, <<1>>, <<>>,
                                      IF certified THEN 2 ELSE 0, good)
                        ELSE IF k = 2
                        THEN Keyblock(2, <<>>, <<1>>, <<>>, 0, TRUE)
                        ELSE NoKeyblock]
        /\ exited = FALSE
        /\ res = NoRes
        /\ calls = MaxCalls - 2
        /\ stack = <<>>
        /\ wstate = "idle"

OwnerNext ==
    \/ VerifyKey(1, 5, 1)
    \/ WalkSigrecs(1)
    \/ \E io \in IoChoices : UpdateTrustRecord(1, io)
    \/ \E io \in IoChoices : InsertTrustRecord(PrimaryOf(2), io)

SpecOwner == OwnerInit /\ [][OwnerNext]_vars

-----------------------------------------------------------------------------
(* Chains of records, for the properties below.                            *)

\* the record types that have a next field
HasNext(rec) ==
    rec.rectype \in {RECTYPE_KEY, RECTYPE_UID, RECTYPE_PREF, RECTYPE_SIG,
                     RECTYPE_HLST}

\* the record numbers of the chain that starts at recno, following next
\* for at most fuel records
RECURSIVE ChainOf(_, _, _)
ChainOf(db, recno, fuel) ==
    IF recno = 0 \/ fuel = 0 \/ recno \notin 1..Len(db) THEN <<>>
    ELSE IF ~HasNext(db[recno]) THEN <<recno>>
    ELSE <<recno>> \o ChainOf(db, db[recno].next, fuel - 1)

ChainSeq(db, recno) == ChainOf(db, recno, Len(db) + 1)
ChainSet(db, recno) == {ChainSeq(db, recno)[i] : i \in 1..Len(ChainSeq(db, recno))}

\* the chain that starts at recno has records of this type only, visits no
\* record twice and ends with a next of 0
ChainOk(db, recno, type) ==
    LET c == ChainSeq(db, recno)
    IN  /\ \A i \in 1..Len(c) : ReadOk(db, c[i], type)
        /\ Len(c) <= Len(db)
        /\ \A i, j \in 1..Len(c) : i # j => c[i] # c[j]
        /\ recno # 0 => (c # <<>> /\ db[c[Len(c)]].next = 0)

DirsOf(db) == {n \in 1..Len(db) : db[n].rectype = RECTYPE_DIR}
UidsOfDir(db, d) == ChainSet(db, db[d].uidlist)

\* (I2) for the Dir d: its Key, Uid, Pref and Sig records name d as owner
BackRefsOk(db, d) ==
    /\ \A n \in ChainSet(db, db[d].keylist) : db[n].lid = d
    /\ \A u \in UidsOfDir(db, d) :
          /\ db[u].lid = d
          /\ db[u].rectype = RECTYPE_UID =>
                /\ \A n \in ChainSet(db, db[u].prefrec) : db[n].lid = d
                /\ \A n \in ChainSet(db, db[u].siglist) : db[n].lid = d

\* the links of record n are 0 or name records of the expected type, its
\* chains are acyclic and 0-terminated, its slots name a Dir or a Sdir
LinksOk(db, n) ==
    LET rec == db[n] IN
    /\ rec.rectype = RECTYPE_DIR =>
          ChainOk(db, rec.keylist, RECTYPE_KEY) /\ ChainOk(db, rec.uidlist, RECTYPE_UID)
    /\ rec.rectype = RECTYPE_KEY => ChainOk(db, rec.next, RECTYPE_KEY)
    /\ rec.rectype = RECTYPE_UID =>
          /\ ChainOk(db, rec.next, RECTYPE_UID)
          /\ ChainOk(db, rec.prefrec, RECTYPE_PREF)
          /\ ChainOk(db, rec.siglist, RECTYPE_SIG)
    /\ rec.rectype = RECTYPE_PREF => ChainOk(db, rec.next, RECTYPE_PREF)
    /\ rec.rectype = RECTYPE_SIG =>
          /\ ChainOk(db, rec.next, RECTYPE_SIG)
          /\ \A i \in 1..SIGS_PER_RECORD :
                rec.sig[i].lid # 0 =>
                   \/ ReadOk(db, rec.sig[i].lid, RECTYPE_DIR)
                   \/ ReadOk(db, rec.sig[i].lid, RECTYPE_SDIR)
    /\ rec.rectype = RECTYPE_SDIR => ChainOk(db, rec.hintlist, RECTYPE_HLST)
    /\ rec.rectype = RECTYPE_HLST => ChainOk(db, rec.next, RECTYPE_HLST)

\* a public mutation has returned (the process did not exit in it)
Returned(op) == res.op = op /\ ~res.died

Mutations == {"insert_trust_record", "update_trust_record", "update_ownertrust"}

\* C7: after every public mutation (insert_trust_record,
\* update_trust_record, update_ownertrust), every Key, Uid, Pref and Sig
\* record reachable from a Dir through its chains has its lid equal to
\* that Dir's record number.
C7_BackReferences ==
    ~exited => \A d \in DirsOf(tdb) : BackRefsOk(tdb, d)

\* C7 witness: an insertion has returned for a key whose Dir has a Key
\* chain of several records and a Uid with Pref and Sig records.
C7_Witness ==
    /\ Returned("insert_trust_record")
    /\ \E d \in DirsOf(tdb) :
          /\ Len(ChainSeq(tdb, tdb[d].keylist)) > 1
          /\ \E u \in UidsOfDir(tdb, d) : tdb[u].siglist # 0
          /\ \E u \in UidsOfDir(tdb, d) : tdb[u].prefrec # 0

\* C8: after any sequence of public operations every Sig slot with a
\* signer LID names a Dir or Sdir record, every chain link is 0 or names an
\* existing record of the expected type, and every chain is acyclic and
\* 0-terminated.
C8_ReferentialIntegrity ==
    ~exited => \A n \in 1..Len(tdb) : LinksOk(tdb, n)

\* C8 witness: an update has returned and left a deleted record, a Sig slot
\* that names a Sdir with a hint list, and a Sig slot that names a Dir.
C8_Witness ==
    /\ Returned("update_trust_record")
    /\ \E n \in 1..Len(tdb) : tdb[n].rectype = RECTYPE_FREE
    /\ \E n \in 1..Len(tdb) :
          /\ tdb[n].rectype = RECTYPE_SIG
          /\ \E i \in 1..SIGS_PER_RECORD :
                /\ ReadOk(tdb, tdb[n].sig[i].lid, RECTYPE_SDIR)
                /\ tdb[tdb[n].sig[i].lid].hintlist # 0
    /\ \E n \in 1..Len(tdb) :
          /\ tdb[n].rectype = RECTYPE_SIG
          /\ \E i \in 1..SIGS_PER_RECORD :
                ReadOk(tdb, tdb[n].sig[i].lid, RECTYPE_DIR)

\* the keys and the user ids of a keyblock, as the records identify them
KeyblockKeys(kb) ==
    {<<kb[i].fingerprint_len, kb[i].fingerprint>> :
        i \in {j \in 1..Len(kb) :
                  kb[j].pkttype \in {PKT_PUBLIC_KEY, PKT_PUBLIC_SUBKEY}}}
KeyblockUids(kb) ==
    {rmd160_hash_buffer(kb[i].name) :
        i \in {j \in 1..Len(kb) : kb[j].pkttype = PKT_USER_ID}}

\* the Key records of Dir d are one-to-one with the keys of kb, and its Uid
\* records with the user ids of kb
OneToOne(db, d, kb) ==
    LET kc == ChainSeq(db, db[d].keylist)
        uc == ChainSeq(db, db[d].uidlist)
    IN  /\ \A i \in 1..Len(kc) : ReadOk(db, kc[i], RECTYPE_KEY)
        /\ \A i \in 1..Len(uc) : ReadOk(db, uc[i], RECTYPE_UID)
        /\ {<<db[kc[i]].fingerprint_len, db[kc[i]].fingerprint>> : i \in 1..Len(kc)}
              = KeyblockKeys(kb)
        /\ Len(kc) = Cardinality(KeyblockKeys(kb))
        /\ {db[uc[i]].namehash : i \in 1..Len(uc)} = KeyblockUids(kb)
        /\ Len(uc) = Cardinality(KeyblockUids(kb))

\* the Key and Uid records of the Dir d (none if d is no Dir)
KeysAndUids(db, d) ==
    IF ReadOk(db, d, RECTYPE_DIR)
    THEN ChainSet(db, db[d].keylist) \cup ChainSet(db, db[d].uidlist)
    ELSE {}

\* this step is a call of op that returned
StepOf(op) == res'.op = op /\ ~res'.died

\* C9: after a successful update_trust_record on a keyblock the Key records
\* of the Dir are one-to-one with the distinct fingerprints of the
\* keyblock's keys, the Uid records one-to-one with the distinct namehashes
\* of its user ids, and the records of the previous state that match
\* nothing are unlinked and deleted, wherever they were in the chain.
C9_Reconciled ==
    [][(StepOf("update_trust_record") /\ res'.rc = RC_OK) =>
          LET d == res'.local_id
              kb == keyring[res'.pk.keyid]
          IN  /\ OneToOne(tdb', d, kb)
              /\ \A n \in KeysAndUids(tdb, d) \ KeysAndUids(tdb', d) :
                    tdb'[n] = FreeRec]_vars

\* C9 witness: a successful update has left the last of three user ids and
\* the last of three subkeys, the records of the others are deleted.
C9_Witness ==
    /\ Returned("update_trust_record") /\ res.rc = RC_OK
    /\ LET d == res.local_id
           kc == ChainSeq(tdb, tdb[d].keylist)
           uc == ChainSeq(tdb, tdb[d].uidlist)
       IN  /\ Len(uc) = 1 /\ tdb[uc[1]].namehash = rmd160_hash_buffer(3)
           /\ Len(kc) = 2 /\ tdb[kc[2]].fingerprint = SubkeyOf(1, 3).fingerprint
           /\ Cardinality({n \in 1..Len(tdb) : tdb[n] = FreeRec}) >= 4

\* the Sdir records of a key
SdirsFor(db, keyid, algo) ==
    {n \in 1..Len(db) : /\ db[n].rectype = RECTYPE_SDIR
                        /\ db[n].keyid = keyid
                        /\ db[n].pubkey_algo = algo}

\* the Sig slots (record, index) that name the record L
SlotsNaming(db, L) ==
    {<<n, i>> \in (1..Len(db)) \X (1..SIGS_PER_RECORD) :
        db[n].rectype = RECTYPE_SIG /\ db[n].sig[i].lid = L}

\* what C10 says of a call of insert_trust_record( pk ) from the database
\* db to the database db2 that returned pk->local_id = lid
PromotionOk(db, db2, pk, lid) ==
    LET shadows == SdirsFor(db, pk.keyid, pk.pubkey_algo)
    IN  IF shadows # {}
        THEN \A L \in shadows :
                /\ ReadOk(db2, L, RECTYPE_DIR)
                /\ db2[L].lid = L
                /\ lid = L
                /\ SdirsFor(db2, pk.keyid, pk.pubkey_algo) = {}
                /\ SlotsNaming(db, L) \subseteq SlotsNaming(db2, L)
        ELSE /\ lid \notin 1..Len(db)
             /\ ReadOk(db2, lid, RECTYPE_DIR)
             /\ db2[lid].lid = lid

\* insert_trust_record gets past its first checks: the keyblock of pk is in
\* the ring and pk is its primary key
InsertAccepts(kr, pk) ==
    LET k == get_keyblock_byfprint(kr, pk.fingerprint_len, pk.fingerprint)
    IN  k # 0 /\ PrimaryKey(kr[k]).keyid = pk.keyid

\* C10 as stated: when insert_trust_record( pk ) is called and a Sdir L
\* for ( pk.keyid, pk.pubkey_algo ) exists, then afterwards L is a Dir with
\* lid L, pk.local_id is L, no Sdir for the key exists and every slot that
\* named L still names it; otherwise the Dir gets a never used recnum.
C10_AsStated ==
    [][StepOf("insert_trust_record") =>
          PromotionOk(tdb, tdb', res'.pk, res'.local_id)]_vars

\* C10 amended: the same for the calls of insert_trust_record( pk ) that
\* find the keyblock of pk in the keyring with pk as its primary key.
C10_Promotion ==
    [][(StepOf("insert_trust_record") /\ InsertAccepts(keyring, res'.pk)) =>
          PromotionOk(tdb, tdb', res'.pk, res'.local_id)]_vars

\* C10 witness: insert_trust_record has returned with success a LID that a
\* Sig slot of another Dir names and marks as a valid signature.
C10_Witness ==
    /\ Returned("insert_trust_record") /\ res.rc = RC_OK
    /\ \E s \in SlotsNaming(tdb, res.local_id) :
          /\ tdb[s[1]].lid # res.local_id
          /\ tdb[s[1]].sig[s[2]].flag = {SIGF_CHECKED, SIGF_VALID}

\* the LIDs listed in the hint list chain that starts at recno
HintedLids(db, recno) ==
    {db[h].rnum[i] : h \in {g \in ChainSet(db, recno) : db[g].rectype = RECTYPE_HLST},
                     i \in 1..ITEMS_PER_HLST_RECORD} \ {0}

\* the signature of the ring that corresponds to a slot of the Uid record u
\* of Dir d naming the key with this key id: the first certification by
\* that key id under the user id of u's namehash in the keyblock of d
\* (its index in the keyblock, with the ring key); <<0, 0>> if none
SigOfSlot(db, kr, d, u, keyid) ==
    LET krec == db[db[d].keylist]
        k == IF ReadOk(db, db[d].keylist, RECTYPE_KEY)
             THEN get_keyblock_byfprint(kr, krec.fingerprint_len, krec.fingerprint)
             ELSE 0
    IN  IF k = 0 THEN <<0, 0>>
        ELSE <<k, FindSigNode(kr[k], 1, 0, db[u].namehash, keyid)>>

\* after the promotion of L (key id keyid) with hint list H in the database
\* db: in db2 the Hlst records of H are deleted and the slots naming L in
\* the Dirs listed in H carry the verifier's outcome
DeferredDone(db, db2, kr, L, keyid) ==
    /\ \A h \in ChainSet(db, db[L].hintlist) : db2[h] = FreeRec
    /\ \A d \in HintedLids(db, db[L].hintlist) :
          ReadOk(db2, d, RECTYPE_DIR) =>
             \A u \in UidsOfDir(db2, d) :
             \A n \in ChainSet(db2, db2[u].siglist) :
             \A i \in 1..SIGS_PER_RECORD :
                LET g == SigOfSlot(db2, kr, d, u, keyid)
                IN  (db2[n].sig[i].lid = L /\ g[2] # 0) =>
                       db2[n].sig[i].flag
                          = FlagOfCheck(check_key_signature(kr, kr[g[1]], kr[g[1]][g[2]]))

\* C11: after a successful insert_trust_record( pk ) that promoted a Sdir L
\* with hint list H, every Hlst record of H is deleted and every Sig slot
\* naming L in every Dir listed in H has the flags of the verifier's outcome
\* for its signature (ok: CHECKED|VALID, no public key: NOPUBKEY, else
\* CHECKED); no such slot keeps NOPUBKEY when the verifier approves.
C11_Deferred ==
    [][(StepOf("insert_trust_record") /\ res'.rc = RC_OK) =>
          \A L \in SdirsFor(tdb, res'.pk.keyid, res'.pk.pubkey_algo) :
              DeferredDone(tdb, tdb', keyring, L, res'.pk.keyid)]_vars

\* C11 witness: insert_trust_record has promoted a Sdir whose Hlst record
\* is now deleted, and both user ids of another Dir have their slot for the
\* new Dir marked as a good signature.
C11_Witness ==
    /\ Returned("insert_trust_record") /\ res.rc = RC_OK
    /\ \E n \in 1..Len(tdb) : tdb[n] = FreeRec
    /\ \E d \in DirsOf(tdb) \ {res.local_id} :
          /\ Cardinality(UidsOfDir(tdb, d)) = 2
          /\ \A u \in UidsOfDir(tdb, d) :
                \E n \in ChainSet(tdb, tdb[u].siglist) :
                   tdb[n].sig[1] = SigSlot(res.local_id, {SIGF_CHECKED, SIGF_VALID})

\* the slots (record, index) of the Sig chain of the Uid record u that are
\* not deleted
SlotsOfUid(db, u) ==
    {p \in ChainSet(db, db[u].siglist) \X (1..SIGS_PER_RECORD) :
        db[p[1]].rectype = RECTYPE_SIG /\ db[p[1]].sig[p[2]].lid # 0}

\* every slot of Dir d that is flagged NOPUBKEY names a Sdir that lists d
\* in its hint list, or a Dir
DeferredRecorded(db, d) ==
    \A u \in {v \in UidsOfDir(db, d) : db[v].rectype = RECTYPE_UID} :
    \A p \in SlotsOfUid(db, u) :
        LET slot == db[p[1]].sig[p[2]]
        IN  SIGF_NOPUBKEY \in slot.flag =>
               /\ slot.lid \in 1..Len(db)
               /\ db[slot.lid].rectype \in {RECTYPE_SDIR, RECTYPE_DIR}
               /\ db[slot.lid].rectype = RECTYPE_SDIR =>
                      d \in HintedLids(db, db[slot.lid].hintlist)

\* the certifications (uid name, signer) of the keyblock kb by signers whose
\* key is not in the ring kr, on user ids that occur once in kb
AbsentCerts(kr, kb) ==
    {<<kb[j].name, kb[i].keyid>> :
        <<j, i>> \in {q \in (1..Len(kb)) \X (1..Len(kb)) :
            /\ q[1] < q[2]
            /\ kb[q[1]].pkttype = PKT_USER_ID
            /\ \A m \in 1..Len(kb) :
                  (kb[m].pkttype = PKT_USER_ID /\ kb[m].name = kb[q[1]].name)
                     => m = q[1]
            /\ \A m \in (q[1] + 1)..q[2] : kb[m].pkttype = PKT_SIGNATURE
            /\ IsCertClass(kb[q[2]].sig_class)
            /\ kb[q[2]].keyid # PrimaryKey(kb).keyid
            /\ ~get_pubkey_ok(kr, kb[q[2]].keyid)}}

\* for the certification c of Dir d by an absent signer there is one Sdir,
\* one slot under the user id that names it, flagged NOPUBKEY, and d is in
\* the hint list of that Sdir
OneDeferredSlot(db, d, c) ==
    LET shadows == SdirsFor(db, c[2], 1)
        uids == {u \in UidsOfDir(db, d) : db[u].namehash = rmd160_hash_buffer(c[1])}
    IN  /\ Cardinality(shadows) = 1
        /\ \A u \in uids : \A S \in shadows :
              /\ Cardinality({p \in SlotsOfUid(db, u) :
                                 db[p[1]].sig[p[2]].lid = S}) = 1
              /\ \A p \in SlotsOfUid(db, u) :
                    db[p[1]].sig[p[2]].lid = S =>
                       db[p[1]].sig[p[2]].flag = {SIGF_NOPUBKEY}
              /\ d \in HintedLids(db, db[S].hintlist)

\* a reconciliation (update_trust_record, or insert_trust_record which
\* runs it) has returned with success
Reconciled ==
    /\ res.op \in {"insert_trust_record", "update_trust_record"}
    /\ ~res.died
    /\ res.rc = RC_OK

\* C12 as stated: in every reachable state a slot flagged NOPUBKEY in the
\* Sig chain of Dir D names a Sdir (or a Dir promoted from it), and while it
\* is a Sdir D is in its hint list; and reconciling a keyblock whose user id
\* carries a signature by a signer absent from the keyring yields one Sdir
\* for the signer, one slot naming it with flag NOPUBKEY and the subject's
\* LID in that Sdir's hint list.
C12_AsStated ==
    /\ ~exited => \A d \in DirsOf(tdb) : DeferredRecorded(tdb, d)
    /\ Reconciled =>
          \A c \in AbsentCerts(keyring, keyring[res.pk.keyid]) :
              OneDeferredSlot(tdb, res.local_id, c)

\* C13: export_ownertrust, then every ownertrust reset to 0, then
\* import_ownertrust of the exported text against the same keyring: every
\* Dir record with a primary Key record has the ownertrust it had before
\* the export, and the Dir records that had 0 stay at 0.
C13_RoundTrip ==
    (res.op = "import_ownertrust" /\ ~res.died /\ ~res.dropped) =>
        \A d \in DirsOf(res.before) :
           /\ ReadOk(tdb, d, RECTYPE_DIR)
           /\ (res.before[d].keylist # 0 \/ res.before[d].ownertrust = 0) =>
                  tdb[d].ownertrust = res.before[d].ownertrust

\* C13 witness: the round trip is done and the three Dir records have back
\* the ownertrust bytes 255, 37 and 6 they had before the export
C13_Witness ==
    /\ res.op = "import_ownertrust" /\ ~res.died /\ ~res.dropped
    /\ res.before[DirNo(1)].ownertrust = 255
    /\ res.before[DirNo(2)].ownertrust = TRUST_FLAG_REVOKED + TRUST_FULLY
    /\ res.before[DirNo(2)].keylist # 0
    /\ res.before[DirNo(EvalSubject)].ownertrust = TRUST_ULTIMATE
    /\ \A k \in EvalKeys : tdb[DirNo(k)].ownertrust = res.before[DirNo(k)].ownertrust

\* ---------------------------------------------------------------------
\* The evaluator and check_trust (SpecEval; C2 under Spec)
\* ---------------------------------------------------------------------

\* the Sig records of the user ids of the Dir record d
SigRecsOf(db, d) ==
    UNION {ChainSet(db, db[u].siglist) : u \in UidsOfDir(db, d)}

\* the LIDs named by the slots of d that verify_key counts
CountingSigners(db, d) ==
    {db[p[1]].sig[p[2]].lid :
        p \in {q \in SigRecsOf(db, d) \X (1..SIGS_PER_RECORD) :
                 /\ db[q[1]].rectype = RECTYPE_SIG
                 /\ SlotCounts(db[q[1]].sig[q[2]])}}

\* the LIDs reachable from the LIDs of frontier along counting slots
RECURSIVE ReachableFrom(_, _, _)
ReachableFrom(db, frontier, seen) ==
    IF frontier \subseteq seen THEN seen
    ELSE LET new == frontier \ seen
         IN  ReachableFrom(db,
                 UNION {CountingSigners(db, d) : d \in new \cap DirsOf(db)},
                 seen \cup new)

\* the key handed to check_trust was neither from the future nor expired
InForce(pk) ==
    /\ pk.timestamp <= Now
    /\ ~(pk.expiredate # 0 /\ pk.expiredate <= Now)

\* check_trust had the Dir record of an in-force key from whose LID no
\* ultimately trusted LID is reachable
NoUltimateReachable ==
    /\ res.op = "check_trust"
    /\ res.rec_read
    /\ InForce(res.pk)
    /\ ReachableFrom(tdb, {res.local_id}, {}) \cap ultikey_table = {}

\* the walk returned what verify_key( 1, 5, dr ) computes
WalkAgrees ==
    wstate = "done" =>
        res.trustlevel = verify_key(tdb, 1, 5, tdb[res.local_id]).trust

\* the activations on the stack are at depths 1, 2, ... and only the
\* innermost one may be at depth >= max_depth
DepthDiscipline ==
    \A j \in 1..Len(stack) :
        /\ stack[j].depth = j
        /\ stack[j].depth >= stack[j].max_depth => j = Len(stack)

\* C1: check_trust (verify_key with depth=1, max_depth=5) terminates for
\* every store, also when the certifications form cycles: every recursive
\* call of verify_key is one deeper than its caller, no activation at
\* depth >= max_depth calls again, and every started walk comes to its end.
C1_Terminates ==
    /\ []DepthDiscipline
    /\ (wstate = "run") ~> (wstate \in {"done", "died"})

\* A and B certify each other, neither is ultimately trusted, and the walk
\* from A has returned undefined
C1_Witness ==
    /\ wstate = "done"
    /\ res.local_id = DirNo(2)
    /\ ultikey_table = {}
    /\ SlotCounts(tdb[DirNo(2) + 3].sig[1])
    /\ tdb[DirNo(2) + 3].sig[1].lid = DirNo(EvalSubject)
    /\ SlotCounts(tdb[DirNo(EvalSubject) + 3].sig[1])
    /\ tdb[DirNo(EvalSubject) + 3].sig[1].lid = DirNo(2)
    /\ res.trustlevel = TRUST_UNDEFINED

\* C2: if no LID of the ultimately trusted set is reachable from the subject
\* key along slots that are CHECKED and VALID and neither EXPIRED nor
\* REVOKED, check_trust on an in-force key returns the level undefined.
C2_AsStated ==
    NoUltimateReachable =>
        /\ ~res.died
        /\ res.rc = RC_OK
        /\ TrustMask(res.trustlevel) = TRUST_UNDEFINED

\* C3: verify_key(depth, max_depth, dir) returns ultimate if and only if
\* depth < max_depth and dir.lid is in the ultimately trusted set; at
\* depth >= max_depth the result is undefined even for an own key; and
\* check_trust (depth 1 of 5) reports ultimate only for an own key.
C3_UltimateIff ==
    /\ (res.op = "verify_key" /\ ~res.died) =>
          /\ res.trustlevel = TRUST_ULTIMATE
                <=> (res.depth < res.max_depth /\ res.local_id \in ultikey_table)
          /\ res.depth >= res.max_depth => res.trustlevel = TRUST_UNDEFINED
    /\ (res.op = "check_trust" /\ ~res.died /\ res.do_check_called
            /\ res.rc = RC_OK) =>
          (TrustMask(res.trustlevel) = TRUST_ULTIMATE
                <=> res.local_id \in ultikey_table)

\* verify_key of an own key with max_depth = 0 returned undefined
C3_Witness ==
    /\ res.op = "verify_key"
    /\ ~res.died
    /\ res.local_id \in ultikey_table
    /\ res.max_depth = 0
    /\ res.trustlevel = TRUST_UNDEFINED

\* the store of scenario 4: K is ultimately trusted, A has ownertrust fully
\* and one counting signature by K, B one counting signature by A only
QuorumScenario ==
    /\ opt = [completes_needed |-> 1, marginals_needed |-> 3]
    /\ DirNo(1) \in ultikey_table
    /\ TrustMask(tdb[DirNo(2)].ownertrust) = TRUST_FULLY
    /\ ReadOk(tdb, DirNo(2) + 3, RECTYPE_SIG)
    /\ tdb[DirNo(2) + 3].sig
          = <<SigSlot(DirNo(1), {SIGF_CHECKED, SIGF_VALID}), FreeSlot>>
    /\ tdb[DirNo(EvalSubject) + 3].sig
          = <<SigSlot(DirNo(2), {SIGF_CHECKED, SIGF_VALID}), FreeSlot>>

\* C4: with completes_needed=1 and marginals_needed=3, K ultimately trusted,
\* A with ownertrust fully and one valid checked signature by K, and B with
\* one valid checked signature by A only, check_trust(B) returns fully.
C4_AsStated ==
    (/\ QuorumScenario
     /\ res.op = "check_trust"
     /\ res.local_id = DirNo(EvalSubject)
     /\ InForce(res.pk)) =>
        /\ ~res.died
        /\ res.rc = RC_OK
        /\ TrustMask(res.trustlevel) = TRUST_FULLY

\* C5: check_trust returns the time-conflict error and no level whenever
\* pk.timestamp is later than now, before looking at the expiry; otherwise,
\* when 0 < pk.expiredate <= now, the level is expired and the evaluator is
\* not invoked; otherwise the level is the evaluator's result for depth 1,
\* max_depth 5.
C5_AsStated ==
    (res.op = "check_trust" /\ ~res.died) =>
        IF res.pk.timestamp > Now
        THEN res.rc = G10ERR_TIME_CONFLICT /\ res.trustlevel = NO_LEVEL
        ELSE IF res.pk.expiredate # 0 /\ res.pk.expiredate <= Now
        THEN /\ res.rc = RC_OK
             /\ res.trustlevel = TRUST_EXPIRED
             /\ ~res.do_check_called
        ELSE /\ res.rc = RC_OK
             /\ res.do_check_called
             /\ ReadOk(tdb, res.local_id, RECTYPE_DIR)
             /\ TrustMask(res.trustlevel)
                    = verify_key(tdb, 1, 5, tdb[res.local_id]).trust

\* C5 amended: once check_trust has the Dir record of pk (read by
\* pk.local_id, found by the search, or inserted with success), it returns
\* the time-conflict error and no level whenever pk.timestamp is later than
\* now, before looking at the expiry; otherwise, when 0 < pk.expiredate <=
\* now, the level is expired and do_check is not called; otherwise do_check
\* is called: for a Dir record without key list or without uid list it
\* returns the trustdb error and no level, and else the level is the
\* evaluator's result for depth 1, max_depth 5.
C5_Ordering ==
    (res.op = "check_trust" /\ ~res.died /\ res.rec_read) =>
        IF res.pk.timestamp > Now
        THEN res.rc = G10ERR_TIME_CONFLICT /\ res.trustlevel = NO_LEVEL
        ELSE IF res.pk.expiredate # 0 /\ res.pk.expiredate <= Now
        THEN /\ res.rc = RC_OK
             /\ res.trustlevel = TRUST_EXPIRED
             /\ ~res.do_check_called
        ELSE /\ res.do_check_called
             /\ ReadOk(tdb, res.local_id, RECTYPE_DIR)
             /\ IF tdb[res.local_id].keylist = 0 \/ tdb[res.local_id].uidlist = 0
                THEN res.rc = G10ERR_TRUSTDB /\ res.trustlevel = NO_LEVEL
                ELSE /\ res.rc = RC_OK
                     /\ TrustMask(res.trustlevel)
                            = verify_key(tdb, 1, 5, tdb[res.local_id]).trust

\* C5 witness: check_trust had the Dir record of a key that is from the
\* future and also expired, and returned the time-conflict error
C5_Witness ==
    /\ res.op = "check_trust"
    /\ ~res.died
    /\ res.rec_read
    /\ res.pk.timestamp > Now
    /\ res.pk.expiredate # 0 /\ res.pk.expiredate <= Now
    /\ res.rc = G10ERR_TIME_CONFLICT
    /\ res.trustlevel = NO_LEVEL

\* C6: whenever check_trust returns successfully for a key whose Dir record
\* has DIRF_REVOKED set, the level has TRUST_FLAG_REVOKED OR-ed in and
\* query_trust_info returns 'r', also when the key is expired.
C6_AsStated ==
    (/\ res.op = "check_trust"
     /\ ~res.died
     /\ res.rc = RC_OK
     /\ res.rec_read
     /\ DIRF_REVOKED \in tdb[res.local_id].dirflags) =>
        /\ res.trustlevel \div TRUST_FLAG_REVOKED = 1
        /\ query_trust_info(res) = "r"

MutatingOps ==
    {"insert_trust_record", "update_trust_record", "import_ownertrust",
     "update_ownertrust", "clear_trust_checked_flag"}

\* the calls of log keep to transactions: no write outside a transaction,
\* no transaction begun inside another, none left open at the end
RECURSIVE TxnScoped(_, _)
TxnScoped(log, open) ==
    IF log = <<>> THEN ~open
    ELSE IF Head(log) = "begin" THEN ~open /\ TxnScoped(Tail(log), TRUE)
    ELSE IF Head(log) = "write" THEN open /\ TxnScoped(Tail(log), open)
    ELSE IF Head(log) \in {"end", "end_failed"}
    THEN open /\ TxnScoped(Tail(log), FALSE)
    ELSE TxnScoped(Tail(log), open)

\* C15: every record write or delete of a public mutating operation
\* happens inside a transaction the operation opened, no transaction is
\* opened while another is open, and when the operation returns its
\* transaction has been ended or cancelled.
C15_AsStated ==
    (res.op \in MutatingOps /\ ~res.died) => TxnScoped(res.log, FALSE)

\* the Hlst record h of db is referenced: it is the hint list of a Sdir or
\* the successor of another Hlst record
HlstReferenced(db, h) ==
    \E n \in 1..Len(db) :
        \/ db[n].rectype = RECTYPE_SDIR /\ db[n].hintlist = h
        \/ db[n].rectype = RECTYPE_HLST /\ db[n].next = h

\* C16: if insert_trust_record replaces a Sdir by the new Dir and the
\* reconciliation then fails, the Hlst records of the hint list of that
\* Sdir are on return still referenced by a record of the trustdb (or the
\* Sdir is back with its hintlist field); they are never left unreferenced.
C16_AsStated ==
    [][(StepOf("insert_trust_record") /\ res'.rc # RC_OK) =>
          \A L \in SdirsFor(tdb, res'.pk.keyid, res'.pk.pubkey_algo) :
              \A h \in ChainSet(tdb, tdb[L].hintlist) :
                  (tdb'[h].rectype = RECTYPE_HLST) => HlstReferenced(tdb', h)]_vars

\* every write of log is followed by a call of do_sync
Synced(log) ==
    \A i \in 1..Len(log) :
        log[i] = "write" => \E j \in (i + 1)..Len(log) : log[j] = "sync"

\* C17: every successful run of a public mutating operation calls sync()
\* before it returns, so that no successful operation returns with writes
\* it has not synced.
C17_AsStated ==
    (res.op \in MutatingOps /\ ~res.died /\ res.rc = RC_OK) => Synced(res.log)

\* C18: update_trust_record sets *modified to true exactly when the
\* reconciliation changed at least one stored record, and to false
\* otherwise.
C18_AsStated ==
    [][(StepOf("update_trust_record") /\ res'.rc = RC_OK) =>
          (res'.modified <=> tdb' # tdb)]_vars

\* the public key of the secret key k as verify_own_keys has it
OwnPk(k) == PkArg(PrimaryOf(k), 0, 0, 0)

\* C19: after init_trustdb( 1, dbname ) a LID is in ultikey_table if and
\* only if some enumerated secret key has a public key that is in the ring,
\* matches the secret key and has a Dir record, found or inserted during
\* the call, with that LID; a secret key that fails one of these steps is
\* skipped and the enumeration goes on.  And check_trust of a key whose Dir
\* record is in ultikey_table, with a timestamp that is not in the future
\* and no expiry that has passed, returns ultimate trust, for which
\* query_trust_info gives 'u'.
C19_OwnKeys ==
    [][/\ StepOf("init") =>
             ultikey_table' =
                 {tdbio_search_dir_bypk(tdb', OwnPk(k)) :
                      k \in {j \in res'.matching : get_pubkey_ok(keyring, j)}}
                 \ {0}
       /\ (/\ StepOf("check_trust")
           /\ tdbio_search_dir_bypk(tdb, res'.pk) \in ultikey_table
           /\ res'.pk.timestamp <= Now
           /\ (res'.pk.expiredate = 0 \/ res'.pk.expiredate > Now))
          => (/\ res'.rc = RC_OK
              /\ TrustMask(res'.trustlevel) = TRUST_ULTIMATE
              /\ query_trust_info(res') = "u")]_vars

\* C19 witness: init_trustdb enumerated two secret keys whose public keys
\* are in the ring; the first does not match its public key and was
\* skipped, the second was put into the trustdb and is the ultimate set
C19_Witness ==
    /\ res.op = "init" /\ ~res.died
    /\ res.secret = {1, 2} /\ res.matching = {2}
    /\ get_pubkey_ok(keyring, 1) /\ get_pubkey_ok(keyring, 2)
    /\ tdbio_search_dir_bypk(tdb, OwnPk(1)) = 0
    /\ tdbio_search_dir_bypk(tdb, OwnPk(2)) # 0
    /\ ultikey_table = {tdbio_search_dir_bypk(tdb, OwnPk(2))}

\* C20: when check_trust finds no Dir record for the key, has to insert it
\* and insert_trust_record fails (no Dir record is read afterwards),
\* check_trust returns an error code and reports no trust level.
C20_AsStated ==
    [][(/\ StepOf("check_trust")
        /\ res'.pk.local_id = 0
        /\ tdbio_search_dir_bypk(tdb, res'.pk) = 0
        /\ ~res'.rec_read)
       => (res'.rc # RC_OK /\ res'.trustlevel = NO_LEVEL)]_vars

-----------------------------------------------------------------------------
(* The evaluation of a key with several user ids and Sig records.          *)

\* the slots of the Sig records rs, record after record
RECURSIVE SlotsOfRecs(_, _)
SlotsOfRecs(db, rs) ==
    IF rs = <<>> THEN <<>>
    ELSE [i \in 1..SIGS_PER_RECORD |-> db[Head(rs)].sig[i]]
         \o SlotsOfRecs(db, Tail(rs))

\* the slots of the Uid records us, uid after uid
RECURSIVE SlotsOfUids(_, _)
SlotsOfUids(db, us) ==
    IF us = <<>> THEN <<>>
    ELSE SlotsOfRecs(db, ChainSeq(db, db[Head(us)].siglist))
         \o SlotsOfUids(db, Tail(us))

\* all slots of the Dir d in uid-chain, sig-chain, slot order
SlotsInOrder(db, d) == SlotsOfUids(db, ChainSeq(db, db[d].uidlist))

\* a slot that is counted: checked, valid, not expired, not revoked, in use
Counted(s) ==
    /\ s.lid # 0
    /\ {SIGF_CHECKED, SIGF_VALID} \subseteq s.flag
    /\ s.flag \cap {SIGF_EXPIRED, SIGF_REVOKED} = {}

CountedSlots(db, d) == SelectSeq(SlotsInOrder(db, d), Counted)

\* what the signers of the counted slots of d evaluate to, one level deeper
SignerLevels(db, d, depth, max_depth) ==
    LET cs == CountedSlots(db, d)
    IN  [i \in 1..Len(cs) |->
            TrustMask(verify_key(db, depth + 1, max_depth, db[cs[i].lid]).trust)]

\* how many of the first n levels are at least lvl
AtLeast(levels, n, lvl) == Cardinality({i \in 1..n : levels[i] >= lvl})

\* the quorum rule on these levels
QuorumRule(levels) ==
    IF \E n \in 1..Len(levels) :
          \/ AtLeast(levels, n, TRUST_FULLY) >= opt.completes_needed
          \/ AtLeast(levels, n, TRUST_MARGINAL) >= opt.marginals_needed
    THEN TRUST_FULLY
    ELSE IF AtLeast(levels, Len(levels), TRUST_MARGINAL) > 0 THEN TRUST_MARGINAL
    ELSE TRUST_UNDEFINED

\* verify_key has returned for a subject that is not an own key, within
\* the depth
Evaluated ==
    /\ Returned("verify_key")
    /\ res.depth < res.max_depth
    /\ ~qry_lid_table_flag(ultikey_table, res.local_id)

LevelsOfRes == SignerLevels(tdb, res.local_id, res.depth, res.max_depth)

NoUltimateSigner ==
    \A i \in 1..Len(LevelsOfRes) : LevelsOfRes[i] # TRUST_ULTIMATE

FirstUltimate ==
    IF NoUltimateSigner THEN 0
    ELSE CHOOSE j \in 1..Len(LevelsOfRes) :
            /\ LevelsOfRes[j] = TRUST_ULTIMATE
            /\ \A i \in 1..(j - 1) : LevelsOfRes[i] # TRUST_ULTIMATE

\* a threshold was reached within the first n counted slots
ReachedWithin(levels, n) ==
    \E m \in 1..n :
        \/ AtLeast(levels, m, TRUST_FULLY) >= opt.completes_needed
        \/ AtLeast(levels, m, TRUST_MARGINAL) >= opt.marginals_needed

\* the owner-trust of the Dir lid: the low bits, at most fully
CappedOwnertrust(db, lid) ==
    LET o == db[lid].ownertrust % (TRUST_MASK + 1)
    IN  IF o > TRUST_FULLY THEN TRUST_FULLY ELSE o

\* C22: when the scan comes to a counted slot whose signer evaluates to
\* ultimate, verify_key returns the owner-trust of that signer, masked
\* with TRUST_MASK and capped at fully, whatever was counted before and
\* whatever slots follow; the owner-trust of the subject does not enter.
C22_ShortCircuit ==
    (/\ Evaluated
     /\ FirstUltimate # 0
     /\ ~ReachedWithin(LevelsOfRes, FirstUltimate - 1))
    => res.trustlevel =
          CappedOwnertrust(tdb, CountedSlots(tdb, res.local_id)[FirstUltimate].lid)

\* the own key's owner-trust is returned although a signer was counted
\* before it and the slots after it would have completed the quorum
C22_Witness ==
    /\ Evaluated
    /\ FirstUltimate > 1
    /\ FirstUltimate < Len(LevelsOfRes)
    /\ ~ReachedWithin(LevelsOfRes, FirstUltimate - 1)
    /\ AtLeast(LevelsOfRes, FirstUltimate - 1, TRUST_MARGINAL) > 0
    /\ ReachedWithin([i \in 1..Len(LevelsOfRes) |->
                        IF LevelsOfRes[i] = TRUST_ULTIMATE THEN TRUST_UNKNOWN
                        ELSE LevelsOfRes[i]], Len(LevelsOfRes))
    /\ res.trustlevel = TRUST_MARGINAL
    /\ tdb[CountedSlots(tdb, res.local_id)[FirstUltimate].lid].ownertrust > TRUST_MASK

\* C23: a valid, checked certification by a signer whose owner-trust is
\* below marginal never contributes to the counts of the subject and never
\* raises its level: a subject all of whose counted slots are by such
\* signers is not evaluated to marginal or more.
C23_AsStated ==
    (/\ Evaluated
     /\ \A i \in 1..Len(CountedSlots(tdb, res.local_id)) :
           CappedOwnertrust(tdb, CountedSlots(tdb, res.local_id)[i].lid)
              < TRUST_MARGINAL)
    => res.trustlevel < TRUST_MARGINAL

\* the slots in use of the Dir d, in uid-chain, sig-chain, slot order
SlotsInUse(db, d) ==
    LET inuse(s) == s.lid # 0 IN SelectSeq(SlotsInOrder(db, d), inuse)

\* C24: walk_sigrecs, called repeatedly for a Dir, returns the signer and
\* the flag of every slot in use of all Sig records of all Uid records of
\* the Dir, in uid-chain, sig-chain and slot order, and eof only after
\* them, also when a Uid with an empty siglist comes before a Uid with
\* signatures and when a Sig record has free slots only.
C24_AsStated ==
    Returned("walk_sigrecs") => res.seq = SlotsInUse(tdb, res.local_id)

\* no two slots in use of the Sig chain of the Uid u name the same signer
OneSlotPerSigner(db, u) ==
    \A p, q \in SlotsOfUid(db, u) :
        (p # q /\ db[p[1]].sig[p[2]].lid # 0)
           => db[p[1]].sig[p[2]].lid # db[q[1]].sig[q[2]].lid

\* C25: after a successful update_trust_record or insert_trust_record no
\* Sig chain of a Uid holds two slots in use with the same signer_lid,
\* whether the signer is a known key, a key known through a Sdir only, or
\* a key absent from the keyring.
C25_AsStated ==
    Reconciled =>
        \A u \in UidsOfDir(tdb, res.local_id) :
            tdb[u].rectype = RECTYPE_UID => OneSlotPerSigner(tdb, u)

\* the primary key of the Dir d has no Sdir: d has no Key record, or no
\* Sdir carries the keyid and algorithm of its first Key record
NoShadowOf(db, d) ==
    LET kc == ChainSeq(db, db[d].keylist)
    IN  (kc # <<>> /\ db[kc[1]].rectype = RECTYPE_KEY) =>
           SdirsFor(db, keyid_from_fingerprint(db[kc[1]].fingerprint),
                    db[kc[1]].pubkey_algo) = {}

\* C26: a Sdir is created only for a signer that has no Dir record, so the
\* store never holds a Dir and a Sdir for the same keyid and algorithm,
\* also when a certification by an inserted signer fails verification.
C26_AsStated ==
    ~exited => \A d \in DirsOf(tdb) : NoShadowOf(tdb, d)

\* the entries in use of the hint list chain that starts at recno, in
\* chain order
HintSeq(db, recno) ==
    LET RECURSIVE items(_)
        items(c) == IF c = <<>> THEN <<>>
                    ELSE SelectSeq(db[Head(c)].rnum, LAMBDA x : x # 0)
                         \o items(Tail(c))
    IN  items(ChainSeq(db, recno))

\* the hint list chain that starts at recno has a free slot
HasFreeHint(db, recno) ==
    \E h \in ChainSet(db, recno) : \E i \in 1..ITEMS_PER_HLST_RECORD :
        db[h].rnum[i] = 0

\* C27: create_shadow_dir, called again for the same keyid, algorithm and
\* LID, returns the same Sdir and changes no record; after any calls there
\* is at most one Sdir for a keyid and algorithm and no LID is twice in the
\* hint list chain of a Sdir; a free slot of a Hlst record is used before
\* a new Hlst record is put in front.
C27_Idempotent ==
    /\ \A n, m \in 1..Len(tdb) :
          (/\ tdb[n].rectype = RECTYPE_SDIR /\ tdb[m].rectype = RECTYPE_SDIR
           /\ tdb[n].keyid = tdb[m].keyid
           /\ tdb[n].pubkey_algo = tdb[m].pubkey_algo) => n = m
    /\ \A n \in 1..Len(tdb) :
          tdb[n].rectype = RECTYPE_SDIR =>
             LET h == HintSeq(tdb, tdb[n].hintlist)
             IN  \A i, j \in 1..Len(h) : i # j => h[i] # h[j]
    /\ Returned("create_shadow_dir") =>
          LET again == create_shadow_dir(tdb, res.sig, res.local_id)
              old == tdbio_search_sdir(res.before, res.sig.keyid, res.sig.pubkey_algo)
          IN  /\ ~again.died /\ again.db = tdb /\ again.newlid = res.newlid
              /\ SdirsFor(tdb, res.sig.keyid, res.sig.pubkey_algo) = {res.newlid}
              /\ res.local_id \in HintedLids(tdb, tdb[res.newlid].hintlist)
              /\ (old # 0 /\ HasFreeHint(res.before, res.before[old].hintlist))
                    => Len(tdb) = Len(res.before)

\* a repeated call has changed nothing, for a LID that sits in the second
\* Hlst record of the chain behind a record with a free slot
C27_Witness ==
    /\ Returned("create_shadow_dir")
    /\ tdb = res.before
    /\ LET c == ChainSeq(tdb, tdb[res.newlid].hintlist)
       IN  /\ Len(c) = 2
           /\ \E i \in 1..ITEMS_PER_HLST_RECORD : tdb[c[1]].rnum[i] = 0
           /\ \E i \in 1..ITEMS_PER_HLST_RECORD : tdb[c[2]].rnum[i] = res.local_id

\* the records of the Dir d: the Dir record and the records of its chains
RecordsOfDir(db, d) ==
    {d} \cup ChainSet(db, db[d].keylist) \cup UidsOfDir(db, d)
        \cup UNION {ChainSet(db, db[u].prefrec) \cup ChainSet(db, db[u].siglist) :
                       u \in {v \in UidsOfDir(db, d) : db[v].rectype = RECTYPE_UID}}

\* C28: a successful update_trust_record that changed the Dir record or one
\* of its child records leaves DIRF_CHECKED clear on the Dir record if it
\* was set before; and no operation sets DIRF_CHECKED.
C28_AsStated ==
    [][/\ (/\ StepOf("update_trust_record") /\ res'.rc = RC_OK
           /\ DIRF_CHECKED \in tdb[res'.local_id].dirflags
           /\ \/ RecordsOfDir(tdb', res'.local_id) # RecordsOfDir(tdb, res'.local_id)
              \/ \E n \in RecordsOfDir(tdb, res'.local_id) : tdb'[n] # tdb[n])
          => DIRF_CHECKED \notin tdb'[res'.local_id].dirflags
       /\ \A n \in 1..Len(tdb') :
            (tdb'[n].rectype = RECTYPE_DIR /\ DIRF_CHECKED \in tdb'[n].dirflags)
               => (/\ n <= Len(tdb) /\ tdb[n].rectype = RECTYPE_DIR
                   /\ DIRF_CHECKED \in tdb[n].dirflags)]_vars

\* the slots in use of the store: record and index
SlotsInStore(db) ==
    {p \in (1..Len(db)) \X (1..SIGS_PER_RECORD) :
        db[p[1]].rectype = RECTYPE_SIG /\ db[p[1]].sig[p[2]].lid # 0}

FlagsInStore(db) == {db[p[1]].sig[p[2]].flag : p \in SlotsInStore(db)}

\* C29: in every reachable state the flag of a slot in use is one of
\* CHECKED|VALID, CHECKED and NOPUBKEY: VALID comes with CHECKED, NOPUBKEY
\* never with CHECKED, and EXPIRED and REVOKED are never set.
C29_SlotFlags ==
    /\ \A f \in FlagsInStore(tdb) :
          /\ SIGF_VALID \in f => SIGF_CHECKED \in f
          /\ ~(SIGF_NOPUBKEY \in f /\ SIGF_CHECKED \in f)
          /\ f \cap {SIGF_EXPIRED, SIGF_REVOKED} = {}
    /\ FlagsInStore(tdb) \subseteq
          {{SIGF_CHECKED, SIGF_VALID}, {SIGF_CHECKED}, {SIGF_NOPUBKEY}}

\* the three values are in the store at once
C29_Witness ==
    FlagsInStore(tdb) = {{SIGF_CHECKED, SIGF_VALID}, {SIGF_CHECKED}, {SIGF_NOPUBKEY}}

\* the Uid records of the Dir d with this namehash
UidsNamed(db, d, name) ==
    {u \in UidsOfDir(db, d) :
        db[u].rectype = RECTYPE_UID /\ db[u].namehash = rmd160_hash_buffer(name)}

\* the Pref records of the Uid u, in chain order
PrefsOf(db, u) ==
    LET c == ChainSeq(db, db[u].prefrec) IN [i \in 1..Len(c) |-> db[c[i]]]

\* the preference data of the Pref records rs, one after the other
RECURSIVE PrefData(_)
PrefData(rs) == IF rs = <<>> THEN <<>> ELSE Head(rs).data \o PrefData(Tail(rs))

\* what C30 says of the self-signature kb[i] of the user id kb[i - 1] when
\* update_trust_record takes the store db to db2 for the Dir d
SelfSigOk(db, db2, d, kb, i) ==
    LET olds == UidsNamed(db, d, kb[i - 1].name)
        news == UidsNamed(db2, d, kb[i - 1].name)
        unchecked == \A u \in olds : UIDF_CHECKED \notin db[u].uidflags
    IN  unchecked =>
          /\ news # {}
          /\ \A u \in news :
                IF kb[i].good
                THEN /\ db2[u].uidflags = {UIDF_CHECKED, UIDF_VALID}
                     /\ PrefData(PrefsOf(db2, u)) = kb[i].prefs
                ELSE /\ db2[u].uidflags = {UIDF_CHECKED}
                     /\ olds = {} => db2[u].prefrec = 0
                     /\ \A o \in olds :
                           /\ db2[u].prefrec = db[o].prefrec
                           /\ PrefsOf(db2, u) = PrefsOf(db, o)

\* C30: when a self-signature of class 0x10..0x13 is reconciled for a Uid
\* whose UIDF_CHECKED is unset, a verifying signature sets the uidflags to
\* CHECKED|VALID and replaces the Pref chain by its preferences, a failing
\* one sets them to CHECKED and leaves the Pref chain as it is; a new uid
\* with a failing self-signature only ends CHECKED, not VALID, without
\* Pref records.
C30_SelfSig ==
    [][(StepOf("update_trust_record") /\ res'.rc = RC_OK) =>
          \A i \in 2..Len(keyring[1]) :
              (/\ keyring[1][i].pkttype = PKT_SIGNATURE
               /\ keyring[1][i - 1].pkttype = PKT_USER_ID)
                 => SelfSigOk(tdb, tdb', res'.local_id, keyring[1], i)]_vars

\* the second user id is new and its self-signature has failed, the first
\* one was verified and has the preferences of its signature in place of
\* the old ones
C30_Witness ==
    /\ Returned("update_trust_record") /\ res.rc = RC_OK
    /\ Len(keyring[1]) = 5 /\ ~keyring[1][5].good /\ keyring[1][5].prefs # <<>>
    /\ \E u \in UidsNamed(tdb, 1, 2) :
          tdb[u].uidflags = {UIDF_CHECKED} /\ tdb[u].prefrec = 0
    /\ \E u \in UidsNamed(tdb, 1, 1) :
          /\ tdb[u].uidflags = {UIDF_CHECKED, UIDF_VALID}
          /\ PrefData(PrefsOf(tdb, u)) = <<8, 9>>
          /\ tdb[4] = FreeRec

\* the name hashes of the user id packets of a keyblock
KeyblockHashes(kb) ==
    {rmd160_hash_buffer(kb[i].name) :
        i \in {j \in 1..Len(kb) : kb[j].pkttype = PKT_USER_ID}}

\* the Uid record u of db with the records of its Pref and Sig chains
UidWithChains(db, u) ==
    {u} \cup ChainSet(db, db[u].prefrec) \cup ChainSet(db, db[u].siglist)

\* C31: a successful update_trust_record deletes a Uid record exactly when
\* the keyblock holds no user id with its name hash; it then deletes every
\* record of the Pref and Sig chains of that Uid and takes the Uid out of
\* the uid chain of the Dir; a Uid whose user id is in the keyblock stays in
\* the chain, with or without signatures on it; and no record of another
\* Dir is deleted or changed.
C31_Cascade ==
    [][(StepOf("update_trust_record") /\ res'.rc = RC_OK)
       => LET d == res'.local_id
              kb == keyring[res'.pk.keyid]
          IN  /\ \A u \in UidsOfDir(tdb, d) :
                    IF tdb[u].namehash \in KeyblockHashes(kb)
                    THEN /\ u \in UidsOfDir(tdb', d)
                         /\ tdb'[u].rectype = RECTYPE_UID
                         /\ tdb'[u].namehash = tdb[u].namehash
                    ELSE /\ u \notin UidsOfDir(tdb', d)
                         /\ \A n \in UidWithChains(tdb, u) : tdb'[n] = FreeRec
              /\ \A e \in DirsOf(tdb) \ {d} :
                    \A n \in RecordsOfDir(tdb, e) : tdb'[n] = tdb[n]]_vars

\* a call that deleted the Uid of user id 1 with its Pref and its Sig
\* record, kept the Uid of user id 2, which the keyblock holds without any
\* signature, with its two records, and left the records of the other Dir
C31_Witness ==
    /\ Returned("update_trust_record") /\ res.rc = RC_OK
    /\ KeyblockHashes(keyring[1]) = {rmd160_hash_buffer(2)}
    /\ Len(keyring[1]) = 2
    /\ tdb[3] = FreeRec /\ tdb[5] = FreeRec /\ tdb[6] = FreeRec
    /\ tdb[1].uidlist = 4
    /\ tdb[4].rectype = RECTYPE_UID /\ tdb[4].next = 0
    /\ tdb[7].rectype = RECTYPE_PREF /\ tdb[8].rectype = RECTYPE_SIG
    /\ tdb[UidSignerDir].rectype = RECTYPE_DIR

\* the positions of the signature packets of kb of a class in classes that
\* the key itself issued (own) or another key issued
SigsOfClass(kb, classes, own) ==
    {i \in 1..Len(kb) :
        /\ kb[i].pkttype = PKT_SIGNATURE
        /\ kb[i].sig_class \in classes
        /\ (kb[i].keyid = PrimaryKey(kb).keyid) = own}

\* kb without its packet i
WithoutPacket(kb, i) == SubSeq(kb, 1, i - 1) \o SubSeq(kb, i + 1, Len(kb))

\* C32: a successful update_trust_record on a keyblock with a key revocation
\* (class 0x20) by the key itself leaves DIRF_REVOKED set on the Dir record
\* of the key; a signature of class 0x18, 0x20 or 0x28 by another key
\* changes nothing: the store is the one the keyblock without that packet
\* gives.
C32_AsStated ==
    [][(StepOf("update_trust_record") /\ res'.rc = RC_OK)
       => LET kb == keyring[res'.pk.keyid] IN
          /\ SigsOfClass(kb, {32}, TRUE) # {}
                => DIRF_REVOKED \in tdb'[res'.local_id].dirflags
          /\ \A i \in SigsOfClass(kb, {24, 32, 40}, FALSE) :
                tdb' = update_trust_record(tdb, keyring, WithoutPacket(kb, i),
                                           0, IO_OK).db]_vars

\* the Sig records in the chains of the Uid records of Dir d whose lid is
\* not d
WrongOwner(db, d) ==
    {n \in UNION {ChainSet(db, db[u].siglist) :
                    u \in {v \in UidsOfDir(db, d) : db[v].rectype = RECTYPE_UID}} :
        db[n].rectype = RECTYPE_SIG /\ db[n].lid # d}

\* the non-self certifications in a keyblock
ForeignCerts(kb) ==
    {i \in 1..Len(kb) :
        /\ kb[i].pkttype = PKT_SIGNATURE
        /\ IsCertClass(kb[i].sig_class)
        /\ kb[i].keyid # PrimaryKey(kb).keyid}

\* C33: an operation that reads a chained Sig record of Dir 1 whose lid is
\* not 1 ends in die_invalid_db: verify_key and walk_sigrecs on Dir 1,
\* update_trust_record on a keyblock of key 1 with a certification (the
\* scan of the uid's Sig chain), and insert_trust_record of a key whose
\* shadow dir has Dir 1 in its hint list.
C33_AsStated ==
    [][(/\ WrongOwner(tdb, 1) # {}
        /\ \/ res'.op \in {"verify_key", "walk_sigrecs"} /\ res'.local_id = 1
           \/ /\ res'.op = "update_trust_record"
              /\ res'.log # <<>>
              /\ ForeignCerts(keyring[1]) # {}
           \/ /\ res'.op = "insert_trust_record"
              /\ res'.rc = RC_OK
              /\ tdb[OwnerSigner].rectype = RECTYPE_SDIR)
       => res'.died]_vars

\* C34: after a successful update_trust_record a second update_trust_record
\* on the same keyblock, the keyring being as it was, returns and leaves the
\* store as the first left it.
C34_AsStated ==
    (Returned("update_trust_record") /\ res.rc = RC_OK)
       => LET again == update_trust_record(tdb, keyring, keyring[res.pk.keyid],
                                           0, IO_OK)
          IN  ~again.died /\ again.rc = RC_OK /\ again.db = tdb

\* C35: in every state the operations reach from the empty trustdb, a slot
\* in use whose flag holds SIGF_CHECKED and SIGF_VALID names a record of
\* type Dir.
C35_AsStated ==
    \A n \in 1..Len(tdb) :
        tdb[n].rectype = RECTYPE_SIG
           => \A i \in 1..SIGS_PER_RECORD :
                 (/\ tdb[n].sig[i].lid # 0
                  /\ {SIGF_CHECKED, SIGF_VALID} \subseteq tdb[n].sig[i].flag)
                    => /\ tdb[n].sig[i].lid \in 1..Len(tdb)
                       /\ tdb[tdb[n].sig[i].lid].rectype = RECTYPE_DIR

\* the slots of the Sig record n in reverse order
SlotsReversed(db, n) ==
    [db EXCEPT ![n].sig = [i \in 1..SIGS_PER_RECORD |->
                              db[n].sig[SIGS_PER_RECORD + 1 - i]]]

\* the first two Sig records of the chain of Uid u change places
SigsSwapped(db, u) ==
    LET s1 == db[u].siglist
        s2 == db[s1].next
    IN  [db EXCEPT ![u].siglist = s2, ![s2].next = s1, ![s1].next = db[s2].next]

\* the first two Uid records of Dir d change places
UidsSwapped(db, d) ==
    LET u1 == db[d].uidlist
        u2 == db[u1].next
    IN  [db EXCEPT ![d].uidlist = u2, ![u2].next = u1, ![u1].next = db[u2].next]

\* the stores that differ from db by one such change in the records of d
Reordered(db, d) ==
    {SlotsReversed(db, n) :
        n \in {m \in RecordsOfDir(db, d) : db[m].rectype = RECTYPE_SIG}}
    \cup {SigsSwapped(db, u) :
            u \in {v \in UidsOfDir(db, d) :
                      db[v].siglist # 0 /\ db[db[v].siglist].next # 0}}
    \cup (IF db[d].uidlist # 0 /\ db[db[d].uidlist].next # 0
          THEN {UidsSwapped(db, d)} ELSE {})

\* C36: verify_key gives the level it gave on every store that differs by
\* the order of the Uid records, of the Sig records of a chain, or of the
\* slots of a Sig record.
C36_AsStated ==
    Evaluated
       => \A db2 \in Reordered(tdb, res.local_id) :
             LET r == verify_key(db2, res.depth, res.max_depth, db2[res.local_id])
             IN  ~r.died /\ r.trust = res.trustlevel

\* the counting slots of the key the last call evaluated that name the
\* Dir lid
SlotsBy(lid) ==
    {i \in 1..Len(CountedSlots(tdb, res.local_id)) :
        CountedSlots(tdb, res.local_id)[i].lid = lid}

\* C37: a signer counts once: when all counting slots of the evaluated key
\* name one signer, that signer is not ultimately trusted, and
\* completes_needed and marginals_needed are at least 2, verify_key does
\* not return fully.
C37_AsStated ==
    (/\ Evaluated
     /\ opt.completes_needed >= 2 /\ opt.marginals_needed >= 2
     /\ NoUltimateSigner
     /\ \E lid \in 1..Len(tdb) :
           SlotsBy(lid) = 1..Len(CountedSlots(tdb, res.local_id)))
    => res.trustlevel # TRUST_FULLY

\* db with the slots of the Sig record n free
SlotsFreed(db, n) ==
    [db EXCEPT ![n].sig = [i \in 1..SIGS_PER_RECORD |-> FreeSlot]]

\* db with the slots freed in every Sig record of rs
RECURSIVE AllFreed(_, _)
AllFreed(db, rs) ==
    IF rs = {} THEN db
    ELSE LET n == CHOOSE m \in rs : TRUE
         IN  AllFreed(SlotsFreed(db, n), rs \ {n})

\* the Sig records of the Uid records of Dir d that lack UIDF_VALID
UnderInvalidUid(db, d) ==
    UNION {ChainSet(db, db[u].siglist) :
             u \in {v \in UidsOfDir(db, d) :
                       /\ db[v].rectype = RECTYPE_UID
                       /\ UIDF_VALID \notin db[v].uidflags}}

\* C38: the slots under a Uid record without UIDF_VALID do not count:
\* verify_key returns what it returns on the store in which these slots
\* are free.
C38_AsStated ==
    (Returned("verify_key") /\ WrongOwner(tdb, res.local_id) = {})
       => LET db2 == AllFreed(tdb, UnderInvalidUid(tdb, res.local_id))
              r == verify_key(db2, res.depth, res.max_depth, db2[res.local_id])
          IN  ~r.died /\ r.trust = res.trustlevel

\* the self-signatures of kb on the user id name: the certifications by
\* the primary key among the signatures that follow a packet of that user id
SelfSigsOn(kb, name) ==
    {i \in 1..Len(kb) :
        /\ kb[i].pkttype = PKT_SIGNATURE
        /\ IsCertClass(kb[i].sig_class)
        /\ kb[i].keyid = PrimaryKey(kb).keyid
        /\ \E j \in 1..(i - 1) :
              /\ kb[j].pkttype = PKT_USER_ID /\ kb[j].name = name
              /\ \A m \in (j + 1)..i : kb[m].pkttype = PKT_SIGNATURE}

\* C39: after a successful update_trust_record a Uid record of the key has
\* UIDF_VALID exactly when one of the self-signatures on its user id in the
\* keyblock verifies, whatever flags it had before.
C39_AsStated ==
    (Returned("update_trust_record") /\ res.rc = RC_OK)
       => \A u \in UidsOfDir(tdb, res.local_id) :
             LET kb == keyring[res.pk.keyid]
                 names == {n \in {kb[j].name : j \in {m \in 1..Len(kb) :
                                     kb[m].pkttype = PKT_USER_ID}} :
                              rmd160_hash_buffer(n) = tdb[u].namehash}
             IN  UIDF_VALID \in tdb[u].uidflags
                    <=> \E n \in names : \E i \in SelfSigsOn(kb, n) : kb[i].good

\* the key id of the signer a slot names by lid: that of the shadow dir, or
\* that of the first key of the Dir
KeyidOfLid(db, lid) ==
    IF db[lid].rectype = RECTYPE_SDIR THEN db[lid].keyid
    ELSE keyid_from_fingerprint(db[db[lid].keylist].fingerprint)

\* the certifications by other keys of kb on the user ids of name hash h
CertsOn(kb, h) ==
    {i \in ForeignCerts(kb) :
        \E j \in 1..(i - 1) :
           /\ kb[j].pkttype = PKT_USER_ID
           /\ rmd160_hash_buffer(kb[j].name) = h
           /\ \A m \in (j + 1)..i : kb[m].pkttype = PKT_SIGNATURE}

\* C40: after a successful update_trust_record every slot in use under a
\* Uid record of the key names the signer of a certification that the
\* keyblock holds on that user id.
C40_AsStated ==
    (Returned("update_trust_record") /\ res.rc = RC_OK)
       => \A u \in UidsOfDir(tdb, res.local_id) :
             \A p \in SlotsOfUid(tdb, u) :
                \E i \in CertsOn(keyring[res.pk.keyid], tdb[u].namehash) :
                   keyring[res.pk.keyid][i].keyid
                      = KeyidOfLid(tdb, tdb[p[1]].sig[p[2]].lid)

====
